---- MODULE Spec2Model ----
(***************************************************************************)
(* Study-session backend: the session store and its start/end handlers,    *)
(* the session aggregator (nlpService.calculateFinalMetrics), the anomaly  *)
(* detector of the Metric model and the dashboard streak.                  *)
(*                                                                         *)
(* Times are milliseconds since the epoch, as Date.getTime() gives them.   *)
(* A JavaScript value that may be undefined is a sequence of length at     *)
(* most one: <<>> is undefined, <<v>> is the value v.                      *)
(* Numbers of the aggregator are kept exact: a quotient is carried as a    *)
(* numerator over a positive denominator and rounded where the code calls  *)
(* Math.round.                                                             *)
(***************************************************************************)
EXTENDS Integers, Sequences, FiniteSets, TLC

\* ---------------------------------------------------------------- bounds
MaxSessions == 2
MaxClients == 2
MaxTicks == 2
MaxInteractions == 1
MaxPhoneLen == 5
MaxScoreLen == 3
MaxAbsenceLen == 12
MaxDropLen == 3
MaxBelowZero == 10
MaxBlinkRate == 110
MaxDaysBack == 5
MaxTrendLen == 3
MaxRequests == 1
MaxBatch == 2
MaxOrderLen == 3
MaxAppends == 2
MaxReadLen == 2
MaxCompleted == 5
MaxScoreSamples == 2
MaxHighlights == 2
MaxRoomSize == 2
MaxRoomRequests == 2
MaxAuthRequests == 2
MaxAuthWeeks == 1
MaxPathLen == 3

\* ------------------------------------------------------------- constants
IDEAL_BLINK_RATE_MIN == 15
IDEAL_BLINK_RATE_MAX == 25
MAX_DISTANCE == 50
\* ENGAGEMENT_WEIGHTS, in tenths
W_attentionRate == 5
W_postureScore == 3
W_blinkRateCompliance == 2

VARIABLES
    sessions,      \* the Session collection: session id -> document, or NoSession
    req,           \* the request each client has in flight: its position and loaded document
    now,           \* the clock new Date() reads
    finalMetrics,  \* what the last call of calculateFinalMetrics returned
    metrics,       \* the Metric collection, in insertion order
    anomalies,     \* what the last call of detectAnomalies returned
    allSessions,   \* the start times GET /analytics/analytics found for the streak
    streak,        \* the streak of the last GET /analytics/analytics response
    blinkRate,     \* the argument of _calculateBlinkCompliance
    compliance,    \* what _calculateBlinkCompliance returned for it
    resp,          \* the responses sent so far, oldest first
    strictQuery,   \* Mongoose's strictQuery option: TRUE drops filter paths the schema lacks
    highlights,    \* the Highlight collection
    rooms,         \* the Room collection: room id -> document
    refreshTokens  \* the RefreshToken collection

vars == <<sessions, req, now, finalMetrics, metrics, anomalies, allSessions,
          streak, blinkRate, compliance, resp, strictQuery, highlights, rooms,
          refreshTokens>>

\* --------------------------------------------------------------- helpers
Undefined == <<>>
Some(v) == <<v>>
\* x || 0
OrZero(x) == IF x = Undefined THEN 0 ELSE x[1]
\* the truthiness of a possibly undefined boolean
Truthy(x) == IF x = Undefined THEN FALSE ELSE x[1]

Min(a, b) == IF a <= b THEN a ELSE b
Max(a, b) == IF a >= b THEN a ELSE b
Abs(a) == IF a < 0 THEN 0 - a ELSE a

\* Math.floor in the place of Math.round
MathRound_Floor(num, den) == num \div den

\* Math.round(num / den) for den > 0: halves go up
MathRound(num, den) == (2 * num + den) \div (2 * den)

SeqsUpTo(S, n) == UNION {[1..k -> S] : k \in 0..n}

\* the JavaScript object {}
EmptyObject == <<>>

\* ------------------------------------------------------ session documents
SessionIds == 1..MaxSessions
Students == {"u1", "u2"}
NoSession == [exists |-> FALSE]
NoDate == -1

WebcamData(looking, posture, blink, phone) ==
    [lookingAtScreen |-> looking, postureScore |-> posture,
     blinkRate |-> blink, hasPhone |-> phone]

\* the data of an interaction that carries none of the webcam fields
OtherData == WebcamData(Undefined, Undefined, Undefined, Undefined)

Interaction(type, data, ts) == [type |-> type, data |-> data, timestamp |-> ts]

NewSession(student, start) ==
    [exists |-> TRUE, student_id |-> student, is_active |-> TRUE,
     start_time |-> start, end_time |-> NoDate, duration_seconds |-> 0,
     interactions |-> <<>>, metrics |-> EmptyObject]

\* ------------------------------------------- nlpService: blink compliance
\* the distance taken to the lower bound only
_calculateBlinkCompliance_LowerOnly(b) ==
    IF b >= IDEAL_BLINK_RATE_MIN /\ b <= IDEAL_BLINK_RATE_MAX
    THEN 100
    ELSE LET penalty == Min(Abs(b - IDEAL_BLINK_RATE_MIN), MAX_DISTANCE)
         IN  Max(0, (100 * (MAX_DISTANCE - penalty)) \div MAX_DISTANCE)

_calculateBlinkCompliance(b) ==
    IF b >= IDEAL_BLINK_RATE_MIN /\ b <= IDEAL_BLINK_RATE_MAX
    THEN 100
    ELSE LET distanceToIdeal == Min(Abs(b - IDEAL_BLINK_RATE_MIN),
                                    Abs(b - IDEAL_BLINK_RATE_MAX))
             \* penalty = Min(distanceToIdeal / MAX_DISTANCE, 1), over MAX_DISTANCE
             penalty == Min(distanceToIdeal, MAX_DISTANCE)
         IN  Max(0, (100 * (MAX_DISTANCE - penalty)) \div MAX_DISTANCE)

\* ------------------------------------- nlpService: calculateFinalMetrics
\* no filter on the interaction type
IsWebcam_Any(i) == i.type \in {"webcam", "highlight"}
IsWebcam(i) == i.type = "webcam"
IsHighlight(i) == i.type = "highlight"

\* the loop with a distraction counted for every sample that has a phone
RECURSIVE AggregateLoop_EverySample(_, _, _)
AggregateLoop_EverySample(w, k, acc) ==
    IF k > Len(w) THEN acc
    ELSE LET data == w[k].data
         IN  AggregateLoop_EverySample(w, k + 1,
               [focusedCount |-> acc.focusedCount
                                   + (IF Truthy(data.lookingAtScreen) THEN 1 ELSE 0),
                postureScoreSum |-> acc.postureScoreSum + OrZero(data.postureScore),
                totalBlinkRateSum |-> acc.totalBlinkRateSum + OrZero(data.blinkRate),
                distractionCount |-> acc.distractionCount
                                   + (IF Truthy(data.hasPhone) THEN 1 ELSE 0),
                phoneDetectedFlag |-> Truthy(data.hasPhone)])

\* the forEach over webcamMetrics, from sample k on; acc is the loop's variables
RECURSIVE AggregateLoop(_, _, _)
AggregateLoop(w, k, acc) ==
    IF k > Len(w) THEN acc
    ELSE LET data == w[k].data
             phone == Truthy(data.hasPhone)
         IN  AggregateLoop(w, k + 1,
               [focusedCount |-> acc.focusedCount
                                   + (IF Truthy(data.lookingAtScreen) THEN 1 ELSE 0),
                postureScoreSum |-> acc.postureScoreSum + OrZero(data.postureScore),
                totalBlinkRateSum |-> acc.totalBlinkRateSum + OrZero(data.blinkRate),
                distractionCount |-> acc.distractionCount
                                   + (IF phone /\ ~acc.phoneDetectedFlag THEN 1 ELSE 0),
                phoneDetectedFlag |-> IF phone /\ ~acc.phoneDetectedFlag THEN TRUE
                                      ELSE IF ~phone THEN FALSE
                                      ELSE acc.phoneDetectedFlag])

Aggregate(w) ==
    AggregateLoop(w, 1, [focusedCount |-> 0, postureScoreSum |-> 0,
                         totalBlinkRateSum |-> 0, distractionCount |-> 0,
                         phoneDetectedFlag |-> FALSE])

\* no clamp
Clamp100_None(x) == x
\* Math.min(100, Math.max(0, x))
Clamp100(x) == Min(100, Max(0, x))

\* the value returned for a stored session document
FinalMetricsOf(session) ==
    LET interactions == session.interactions
        webcamMetrics == SelectSeq(interactions, IsWebcam)
        totalMetrics == Len(webcamMetrics)
    IN  IF totalMetrics = 0
        THEN [engagementScore |-> 0, attentionRate |-> 0, avgBlinkRate |-> 0,
              distractionCount |-> 0,
              durationSeconds |-> session.duration_seconds,
              totalMetricsRecorded |-> 0]
        ELSE LET a == Aggregate(webcamMetrics)
                 attentionRate == MathRound(a.focusedCount * 100, totalMetrics)
                 avgBlinkRate == MathRound(a.totalBlinkRateSum, totalMetrics)
                 blinkComplianceScore == _calculateBlinkCompliance(avgBlinkRate)
                 \* tenths: attentionRate*5 + (postureScoreSum/totalMetrics)*3 + compliance*2
                 engagementScore ==
                     MathRound(W_attentionRate * attentionRate * totalMetrics
                                 + W_postureScore * a.postureScoreSum
                                 + W_blinkRateCompliance * blinkComplianceScore * totalMetrics,
                               10 * totalMetrics)
             IN  [engagementScore |-> Clamp100(engagementScore),
                  attentionRate |-> attentionRate,
                  avgPostureScore |-> MathRound(a.postureScoreSum, totalMetrics),
                  avgBlinkRate |-> avgBlinkRate,
                  distractionCount |-> a.distractionCount,
                  durationSeconds |-> session.duration_seconds,
                  totalMetricsRecorded |-> totalMetrics,
                  totalHighlights |-> Len(SelectSeq(interactions, IsHighlight))]

\* Session.findById, then the aggregation; {} when the session is not found
calculateFinalMetrics(sessionId) ==
    IF ~sessions[sessionId].exists THEN EmptyObject
    ELSE FinalMetricsOf(sessions[sessionId])

\* ------------------------------------------------ Metric.detectAnomalies
Sample(sid, ts, present, score) ==
    [session_id |-> sid, timestamp |-> ts,
     presence |-> [detected |-> present], engagement_score |-> score]

\* this.find({ session_id }): the session's documents, in the order stored
FindBySession(sessionId) ==
    LET OfSession(m) == m.session_id = sessionId
    IN  SelectSeq(metrics, OfSession)

\* the loop with severity high from a drop of 50 on
RECURSIVE EngagementDrops_From50(_, _)
EngagementDrops_From50(ms, i) ==
    IF i > Len(ms) THEN <<>>
    ELSE LET drop == ms[i - 1].engagement_score - ms[i].engagement_score
         IN  (IF drop > 30
              THEN <<[type |-> "engagement_drop",
                      timestamp |-> ms[i].timestamp,
                      severity |-> IF drop >= 50 THEN "high" ELSE "medium",
                      details |-> <<"Engagement dropped by", drop>>]>>
              ELSE <<>>)
             \o EngagementDrops_From50(ms, i + 1)

\* for (let i = 1; i < metrics.length; i++), from index i on (1-based)
RECURSIVE EngagementDrops(_, _)
EngagementDrops(ms, i) ==
    IF i > Len(ms) THEN <<>>
    ELSE LET drop == ms[i - 1].engagement_score - ms[i].engagement_score
         IN  (IF drop > 30
              THEN <<[type |-> "engagement_drop",
                      timestamp |-> ms[i].timestamp,
                      severity |-> IF drop > 50 THEN "high" ELSE "medium",
                      details |-> <<"Engagement dropped by", drop>>]>>
              ELSE <<>>)
             \o EngagementDrops(ms, i + 1)

\* the loop with an anomaly for every miss from the fifth on
RECURSIVE ProlongedAbsence_EveryMiss(_, _, _)
ProlongedAbsence_EveryMiss(ms, i, absenceStreak) ==
    IF i > Len(ms) THEN <<>>
    ELSE IF ~ms[i].presence.detected
         THEN (IF absenceStreak + 1 >= 5
               THEN <<[type |-> "prolonged_absence",
                       timestamp |-> ms[i].timestamp,
                       severity |-> "high",
                       details |-> <<"Student absent for extended period">>]>>
               ELSE <<>>)
              \o ProlongedAbsence_EveryMiss(ms, i + 1, absenceStreak + 1)
         ELSE ProlongedAbsence_EveryMiss(ms, i + 1, 0)

\* for (const metric of metrics), from index i on with the streak so far
RECURSIVE ProlongedAbsence(_, _, _)
ProlongedAbsence(ms, i, absenceStreak) ==
    IF i > Len(ms) THEN <<>>
    ELSE IF ~ms[i].presence.detected
         THEN (IF absenceStreak + 1 = 5
               THEN <<[type |-> "prolonged_absence",
                       timestamp |-> ms[i].timestamp,
                       severity |-> "high",
                       details |-> <<"Student absent for extended period">>]>>
               ELSE <<>>)
              \o ProlongedAbsence(ms, i + 1, absenceStreak + 1)
         ELSE ProlongedAbsence(ms, i + 1, 0)

detectAnomalies(sessionId) ==
    LET ms == FindBySession(sessionId)
    IN  EngagementDrops(ms, 2) \o ProlongedAbsence(ms, 1, 0)

\* --------------------------------------- GET /analytics/analytics: streak
DayMs == 1000 * 60 * 60 * 24
\* date.setHours(0, 0, 0, 0)
StartOfDay(t) == t - (t % DayMs)

\* Array.from(set).sort((a, b) => b - a)
RECURSIVE SortDesc(_)
SortDesc(S) ==
    IF S = {} THEN <<>>
    ELSE LET m == CHOOSE x \in S : \A y \in S : y <= x
         IN  <<m>> \o SortDesc(S \ {m})

\* for (const timestamp of sortedUniqueDates), from index i on
RECURSIVE StreakLoop(_, _, _, _)
StreakLoop(dates, i, currentDate, currentStreak) ==
    IF i > Len(dates) THEN currentStreak
    ELSE LET diff == currentDate - dates[i]
         IN  IF diff < 0 THEN StreakLoop(dates, i + 1, currentDate, currentStreak)
             ELSE IF diff = 0 \/ diff = DayMs
                  THEN StreakLoop(dates, i + 1, currentDate - DayMs, currentStreak + 1)
                  ELSE currentStreak

\* the streak of the response, for the start times found and the clock t
currentStreakOf(found, t) ==
    LET today == StartOfDay(t)
        uniqueDates == {StartOfDay(found[k]) : k \in 1..Len(found)}
        sortedUniqueDates == SortDesc(uniqueDates)
        looped == StreakLoop(sortedUniqueDates, 1, today, 0)
    IN  IF Len(sortedUniqueDates) > 0
        THEN (IF today - sortedUniqueDates[1] > DayMs THEN 0 ELSE looped)
        ELSE 0

\* A response sent, with the request it answers: who asked, and for what.
Response(route, user, request, status, data) ==
    [route |-> route, user |-> user, request |-> request,
     status |-> status, data |-> data]

\* ------------------------------------------------- stored Metric documents
\* A Metric document as Metric.create or insertMany stores it.  The paths a
\* request leaves out hold the defaults of the schema.
DefaultDistraction == [detected |-> FALSE, type |-> "none", attention_score |-> 100]
PhoneDistraction == [detected |-> TRUE, type |-> "phone", attention_score |-> 30]
DefaultPosture == [score |-> 0, quality |-> "good"]
DefaultFacial == [blink_rate |-> 0, emotion |-> "neutral"]
DefaultHealth ==
    [eye_strain_risk |-> "low", fatigue_level |-> 0, time_since_break |-> 0,
     break_recommended |-> FALSE]

MetricDoc(session_id, user_id, timestamp, present, engagement_score, distraction, health) ==
    [session_id |-> session_id, user_id |-> user_id, timestamp |-> timestamp,
     presence |-> [detected |-> present], facial |-> DefaultFacial,
     posture |-> DefaultPosture, distraction |-> distraction, health |-> health,
     engagement_score |-> engagement_score]

RECURSIVE SumSeq(_)
SumSeq(s) == IF s = <<>> THEN 0 ELSE Head(s) + SumSeq(Tail(s))

RECURSIVE SortAsc(_)
SortAsc(S) ==
    IF S = {} THEN <<>>
    ELSE LET m == CHOOSE x \in S : \A y \in S : x <= y
         IN  <<m>> \o SortAsc(S \ {m})

\* ----------------------------------------------- Metric.getEngagementTrend
\* $subtract: [timestamp, $mod: [timestamp, intervalMinutes * 60 * 1000]]
BucketKey_Remainder(timestamp, intervalMinutes) ==
    timestamp % (intervalMinutes * 60 * 1000)

BucketKey(timestamp, intervalMinutes) ==
    timestamp - (timestamp % (intervalMinutes * 60 * 1000))

\* One $group document.  An $avg is kept exact, as <<sum, count>>.
TrendBucket(ms, key, intervalMinutes) ==
    LET members == SelectSeq(ms, LAMBDA m :
                       BucketKey(m.timestamp, intervalMinutes) = key)
        n == Len(members)
    IN  [_id |-> key,
         avg_engagement |->
             <<SumSeq([i \in 1..n |-> members[i].engagement_score]), n>>,
         avg_attention |->
             <<SumSeq([i \in 1..n |-> members[i].distraction.attention_score]), n>>,
         distraction_count |->
             SumSeq([i \in 1..n |->
                        IF members[i].distraction.detected THEN 1 ELSE 0]),
         datapoints |-> n]

\* $match, $group, $sort by _id ascending.
getEngagementTrend(sessionId, intervalMinutes) ==
    LET ms == FindBySession(sessionId)
        keys == {BucketKey(ms[i].timestamp, intervalMinutes) : i \in 1..Len(ms)}
        sorted == SortAsc(keys)
    IN  [k \in 1..Len(sorted) |-> TrendBucket(ms, sorted[k], intervalMinutes)]

\* Math.round(avg * 10) / 10, kept as the number of tenths.
RoundToTenth(avg) == MathRound(avg[1] * 10, avg[2])

FormattedTrend(trend) ==
    [k \in 1..Len(trend) |->
        [timestamp |-> trend[k]._id,
         avg_engagement |-> RoundToTenth(trend[k].avg_engagement),
         avg_attention |-> RoundToTenth(trend[k].avg_attention),
         distraction_count |-> trend[k].distraction_count,
         datapoints |-> trend[k].datapoints]]

\* --------------------------------------- POST /metrics, POST /metrics/batch
\* What a client sends as session_id: the uuid of a Session document, or a
\* string of 24 hex digits.  Session._id is a String filled by uuidv4, so a
\* hex string is the _id of no session; Metric.session_id is an ObjectId, and
\* only a hex string casts to one.
UuidRef(s) == [kind |-> "uuid", n |-> s]
HexRef(k) == [kind |-> "hex", n |-> k]
CastsToObjectId(ref) == ref.kind = "hex"

SessionAt(s) == IF s \in SessionIds THEN sessions[s] ELSE NoSession

TiredHealth ==
    [eye_strain_risk |-> "low", fatigue_level |-> 80, time_since_break |-> 0,
     break_recommended |-> FALSE]

\* the body of a sample; a path the client left out is Undefined
MetricBody(session_id, engagement_score, health) ==
    [session_id |-> session_id, engagement_score |-> engagement_score,
     health |-> health]

\* Session.findOne({ _id: session_id, user_id: req.user._id }).  The Session
\* schema has student_id and no user_id: with strictQuery the condition on
\* user_id is dropped from the filter, without it no document satisfies it.
FindSessionOfUser(ref, user) ==
    IF ref.kind = "uuid" /\ SessionAt(ref.n).exists /\ strictQuery
    THEN Some(ref.n) ELSE Undefined

\* the document built from a body, with the defaults of the schema
NewMetric(user, body, t) ==
    MetricDoc(body.session_id[1], user, t, FALSE, OrZero(body.engagement_score),
              DefaultDistraction,
              IF body.health = Undefined THEN DefaultHealth ELSE body.health[1])

\* validation: session_id required and cast to ObjectId, engagement_score min 0 max 100
IsValidMetric(body) ==
    /\ body.session_id # Undefined
    /\ CastsToObjectId(body.session_id[1])
    /\ OrZero(body.engagement_score) >= 0
    /\ OrZero(body.engagement_score) <= 100

\* metricSchema.pre('save')
PreSave(doc) ==
    [doc EXCEPT !.engagement_score = Max(0, Min(100, @)),
                !.health.break_recommended =
                    IF \/ doc.health.time_since_break > 25
                       \/ doc.health.eye_strain_risk = "critical"
                       \/ doc.health.fatigue_level > 75
                    THEN TRUE ELSE @]

\* insertMany that inserts nothing when a document fails validation
insertMany_Ordered(user, bodies, t) ==
    IF \A i \in 1..Len(bodies) : IsValidMetric(bodies[i])
    THEN [i \in 1..Len(bodies) |-> NewMetric(user, bodies[i], t)]
    ELSE <<>>

\* Metric.insertMany(docs, { ordered: false }): the documents that pass
\* validation are inserted, the others skipped; save middleware does not run
insertMany(user, bodies, t) ==
    LET valid == SelectSeq(bodies, IsValidMetric)
    IN  [i \in 1..Len(valid) |-> NewMetric(user, valid[i], t)]

\* the types POST /interactions/:sessionId/batch keeps
validTypes ==
    {"highlight", "scroll", "zoom", "page_change", "page_turn", "webcam",
     "face_metric", "click", "hover", "input", "focus", "blur", "navigation",
     "break_start", "break_end"}

interactionsToAdd(interactions, t) ==
    LET kept == SelectSeq(interactions, LAMBDA i : i[1] \in validTypes)
    IN  [k \in 1..Len(kept) |-> Interaction(kept[k][1], kept[k][2], t)]

\* ------------------------------------------------ Metric.getSessionSummary
CountOf(ms, Test(_)) == Len(SelectSeq(ms, Test))
FieldSum(ms, Field(_)) == SumSeq([i \in 1..Len(ms) |-> Field(ms[i])])
IsDistracted(m) == m.distraction.detected
IsPoorPosture(m) == m.posture.quality \in {"poor", "very_poor"}
IsEyeStrain(m) == m.health.eye_strain_risk \in {"high", "critical"}

\* The summary of a non-empty list of samples, in the order find() gave them.
\* A quotient is kept exact, as <<numerator, denominator>>.
SummaryOf(ms) ==
    LET n == Len(ms)
        scores == {ms[i].engagement_score : i \in 1..n}
        distracted == SelectSeq(ms, IsDistracted)
        emotions == {ms[i].facial.emotion : i \in 1..n}
    IN  [total_datapoints |-> n,
         duration_minutes |-> <<ms[n].timestamp - ms[1].timestamp, 60000>>,
         avg_engagement |-> <<FieldSum(ms, LAMBDA m : m.engagement_score), n>>,
         max_engagement |-> CHOOSE x \in scores : \A y \in scores : y <= x,
         min_engagement |-> CHOOSE x \in scores : \A y \in scores : x <= y,
         presence_rate |-> <<CountOf(ms, LAMBDA m : m.presence.detected) * 100, n>>,
         distraction_count |-> Len(distracted),
         distraction_rate |-> <<Len(distracted) * 100, n>>,
         distraction_types |->
             {distracted[i].distraction.type : i \in 1..Len(distracted)},
         avg_posture_score |-> <<FieldSum(ms, LAMBDA m : m.posture.score), n>>,
         poor_posture_count |-> CountOf(ms, IsPoorPosture),
         avg_blink_rate |-> <<FieldSum(ms, LAMBDA m : m.facial.blink_rate), n>>,
         eye_strain_alerts |-> CountOf(ms, IsEyeStrain),
         avg_fatigue |-> <<FieldSum(ms, LAMBDA m : m.health.fatigue_level), n>>,
         emotion_distribution |->
             [e \in emotions |-> CountOf(ms, LAMBDA m : m.facial.emotion = e)],
         engagement_timeline |->
             [i \in 1..n |-> [timestamp |-> ms[i].timestamp,
                              score |-> ms[i].engagement_score]]]

\* this.find({ session_id }) without a sort; null when nothing is found
getSessionSummary(sessionId) ==
    LET ms == FindBySession(sessionId)
    IN  IF Len(ms) = 0 THEN Undefined ELSE Some(SummaryOf(ms))

\* ------------------------------------ session.interactions.push(); save()
\* save() after a push sends $push with the pushed elements: the _id is the
\* only condition of the update, and the elements join whatever array the
\* store holds by then.
PushAndSave_SetArray(stored, loaded, pushed) == loaded \o pushed

PushAndSave(stored, loaded, pushed) == stored \o pushed

\* --------------------------------------------- the other three streaks
\* new Date(x).toDateString(): the calendar day, kept as its first millisecond
toDateString(t) == StartOfDay(t)

\* [...new Set(times.map(toDateString))].sort((a, b) => new Date(b) - new Date(a))
UniqueDatesDesc(times) ==
    SortDesc({toDateString(times[k]) : k \in 1..Len(times)})

\* analyticsProcessor.js: for (const dateStr of studyDates), from index i on
RECURSIVE StudyStreakLoop(_, _, _, _)
StudyStreakLoop(studyDates, i, expectedDate, streakSoFar) ==
    IF i > Len(studyDates) THEN streakSoFar
    ELSE IF studyDates[i] = toDateString(expectedDate)
         THEN StudyStreakLoop(studyDates, i + 1, expectedDate - DayMs,
                              streakSoFar + 1)
         ELSE streakSoFar

calculateStudyStreak(starts, t) ==
    IF Len(starts) = 0 THEN 0
    ELSE LET studyDates == UniqueDatesDesc(starts)
             today == toDateString(t)
             yesterday == toDateString(t - 86400000)
         IN  IF studyDates[1] # today /\ studyDates[1] # yesterday
             THEN 0
             ELSE StudyStreakLoop(studyDates, 1, t, 0)

\* achievementCalculator.js: for (let i = 1; i < dates.length; i++), 1-based here
RECURSIVE CalcStreakLoop(_, _, _)
CalcStreakLoop(dates, i, streakSoFar) ==
    IF i > Len(dates) THEN streakSoFar
    ELSE LET diffDays == (dates[i - 1] - dates[i]) \div 86400000
         IN  IF diffDays = 1 THEN CalcStreakLoop(dates, i + 1, streakSoFar + 1)
             ELSE streakSoFar

calculateStreak(starts, t) ==
    LET dates == UniqueDatesDesc(starts)
        today == toDateString(t)
        yesterday == toDateString(t - 86400000)
    IN  IF Len(dates) > 0 /\ (dates[1] = today \/ dates[1] = yesterday)
        THEN CalcStreakLoop(dates, 2, 1)
        ELSE 0

\* GET /interactions/analytics/overall: for (const dateStr of sessionDates)
RECURSIVE OverallStreakLoop(_, _, _, _)
OverallStreakLoop(sessionDates, i, currentDate, streakSoFar) ==
    IF i > Len(sessionDates) THEN streakSoFar
    ELSE IF sessionDates[i] = currentDate
         THEN OverallStreakLoop(sessionDates, i + 1,
                                toDateString(sessionDates[i] - DayMs),
                                streakSoFar + 1)
         ELSE streakSoFar

overallStreak(ends, t) ==
    OverallStreakLoop(UniqueDatesDesc(ends), 1, toDateString(t), 0)

\* ---------------------------------------------- the read routes' payloads
\* .sort({ timestamp: 1 })
RECURSIVE SortByTimestamp(_)
SortByTimestamp(ms) ==
    IF ms = <<>> THEN <<>>
    ELSE LET k == CHOOSE i \in 1..Len(ms) :
                      \A j \in 1..Len(ms) : ms[i].timestamp <= ms[j].timestamp
         IN  <<ms[k]>> \o SortByTimestamp([i \in 1..(Len(ms) - 1) |->
                                             IF i < k THEN ms[i] ELSE ms[i + 1]])

\* .sort({ timestamp: -1 })
Reversed(s) == [i \in 1..Len(s) |-> s[Len(s) + 1 - i]]

\* Metric.find({ session_id: sessionId }).sort({ timestamp: 1 })
FindSorted(sessionId) == SortByTimestamp(FindBySession(sessionId))

\* Metric.getRecentMetrics(sessionId, minutes) at the clock t
getRecentMetrics(sessionId, minutes, t) ==
    Reversed(SortByTimestamp(
        SelectSeq(FindBySession(sessionId),
                  LAMBDA m : m.timestamp >= t - minutes * 60 * 1000)))

\* metricSchema.methods.getAlerts
getAlerts(m) ==
    (IF ~m.presence.detected
     THEN <<[type |-> "absence", severity |-> "high"]>> ELSE <<>>)
    \o (IF m.distraction.detected
        THEN <<[type |-> "distraction", severity |-> "medium"]>> ELSE <<>>)
    \o (IF m.posture.quality \in {"poor", "very_poor"}
        THEN <<[type |-> "posture", severity |-> "low"]>> ELSE <<>>)
    \o (IF m.health.eye_strain_risk \in {"high", "critical"}
        THEN <<[type |-> "health", severity |-> "high"]>> ELSE <<>>)
    \o (IF m.health.break_recommended
        THEN <<[type |-> "break", severity |-> "medium"]>> ELSE <<>>)

\* GET .../engagement-timeline: the events of the sample at index
TimelineEvents(ms, index) ==
    (IF ~ms[index].presence.detected THEN <<"absence">> ELSE <<>>)
    \o (IF ms[index].distraction.detected THEN <<"distraction">> ELSE <<>>)
    \o (IF ms[index].posture.score < 50 THEN <<"poor_posture">> ELSE <<>>)
    \o (IF index > 1 /\ ms[index].engagement_score
                          - ms[index - 1].engagement_score > 20
        THEN <<"engagement_spike">> ELSE <<>>)
    \o (IF index > 1 /\ ms[index].engagement_score
                          - ms[index - 1].engagement_score < -20
        THEN <<"engagement_drop">> ELSE <<>>)

EngagementTimeline(ms) ==
    [index \in 1..Len(ms) |->
        [timestamp |-> ms[index].timestamp,
         engagement_score |-> ms[index].engagement_score,
         emotion |-> ms[index].facial.emotion,
         events |-> TimelineEvents(ms, index)]]

\* GET /metrics/health/:sessionId; avg_blink_rate in tenths
HealthData(healthMetrics) ==
    LET blinkRates == SelectSeq([i \in 1..Len(healthMetrics) |->
                                    healthMetrics[i].facial.blink_rate],
                                LAMBDA b : b > 0)
        eyeStrainAlerts == CountOf(healthMetrics, IsEyeStrain)
        postureIssues == CountOf(healthMetrics, LAMBDA m : m.posture.score < 50)
    IN  [avg_blink_rate |->
             \* sum / length || 0: NaN, from an empty list, becomes 0
             IF Len(blinkRates) = 0 THEN 0
             ELSE MathRound(SumSeq(blinkRates) * 10, Len(blinkRates)),
         eye_strain_alerts |-> eyeStrainAlerts,
         posture_issues |-> postureIssues,
         fatigue_timeline |->
             [i \in 1..Len(healthMetrics) |->
                 [timestamp |-> healthMetrics[i].timestamp,
                  fatigue_level |-> healthMetrics[i].health.fatigue_level]],
         health_score |-> Max(0, 100 - eyeStrainAlerts * 5 - postureIssues * 2)]

\* GET /metrics/distractions/:sessionId: metrics.forEach, from index i on;
\* currentEpisode is Undefined or Some(episode)
RECURSIVE EpisodesLoop(_, _, _, _)
EpisodesLoop(ms, i, currentEpisode, episodes) ==
    IF i > Len(ms)
    THEN episodes \o currentEpisode
    ELSE IF ms[i].distraction.detected
         THEN IF currentEpisode = Undefined
              THEN EpisodesLoop(ms, i + 1,
                       Some([start |-> ms[i].timestamp, end |-> ms[i].timestamp,
                             type |-> ms[i].distraction.type, count |-> 1]),
                       episodes)
              ELSE EpisodesLoop(ms, i + 1,
                       Some([currentEpisode[1] EXCEPT !.end = ms[i].timestamp,
                                                      !.count = @ + 1]),
                       episodes)
         ELSE EpisodesLoop(ms, i + 1, Undefined, episodes \o currentEpisode)

\* Durations are kept in milliseconds; a quotient is <<numerator, denominator>>,
\* so <<0, 0>> is the NaN of 0 / 0.
DistractionData(ms) ==
    LET distractions == SelectSeq(ms, IsDistracted)
        types == {distractions[i].distraction.type : i \in 1..Len(distractions)}
        episodes == EpisodesLoop(ms, 1, Undefined, <<>>)
        durations == [i \in 1..Len(episodes) |-> episodes[i].end - episodes[i].start]
        totalDistractionTime == SumSeq(durations)
        longest == {durations[i] : i \in 1..Len(durations)}
    IN  [total_distractions |-> Len(distractions),
         distraction_rate |-> <<Len(distractions) * 100, Len(ms)>>,
         by_type |-> [ty \in types |->
                        CountOf(distractions, LAMBDA m : m.distraction.type = ty)],
         episodes |-> Len(episodes),
         total_distraction_time |-> MathRound(totalDistractionTime, 1000),
         avg_episode_duration |->
             IF Len(episodes) > 0
             THEN <<totalDistractionTime, 1000 * Len(episodes)>> ELSE <<0, 1>>,
         longest_episode |->
             IF Len(episodes) > 0
             THEN <<CHOOSE x \in longest : \A y \in longest : y <= x, 1000>>
             ELSE <<0, 1>>,
         distraction_timeline |->
             [i \in 1..Len(episodes) |->
                 [start |-> episodes[i].start, end |-> episodes[i].end,
                  type |-> episodes[i].type, count |-> episodes[i].count,
                  duration_seconds |-> <<durations[i], 1000>>]]]

\* GET /metrics/comparison/:sessionId: the $group over the user's other sessions
HistoricalAvg(user, sessionId) ==
    LET others == SelectSeq(metrics, LAMBDA m :
                      m.user_id = user /\ m.session_id # sessionId)
        n == Len(others)
    IN  IF n = 0 THEN Undefined
        ELSE Some([avg_engagement |->
                       <<FieldSum(others, LAMBDA m : m.engagement_score), n>>,
                   avg_posture |-> <<FieldSum(others, LAMBDA m : m.posture.score), n>>,
                   avg_blink_rate |->
                       <<FieldSum(others, LAMBDA m : m.facial.blink_rate), n>>,
                   distraction_rate |-> <<CountOf(others, IsDistracted), n>>])

\* a / b - c / d
Difference(x, y) == <<x[1] * y[2] - y[1] * x[2], x[2] * y[2]>>

Comparison(currentSession, historicalAvg) ==
    [current |-> [avg_engagement |-> currentSession.avg_engagement,
                  avg_posture |-> currentSession.avg_posture_score,
                  avg_blink_rate |-> currentSession.avg_blink_rate,
                  distraction_rate |-> currentSession.distraction_rate],
     historical |-> historicalAvg,
     differences |->
         IF historicalAvg = Undefined THEN EmptyObject
         ELSE <<Difference(currentSession.avg_engagement,
                           historicalAvg[1].avg_engagement),
                Difference(currentSession.avg_posture_score,
                           historicalAvg[1].avg_posture),
                Difference(currentSession.avg_blink_rate,
                           historicalAvg[1].avg_blink_rate),
                Difference(currentSession.distraction_rate,
                           <<historicalAvg[1].distraction_rate[1] * 100,
                             historicalAvg[1].distraction_rate[2]>>)>>]

\* GET /metrics/aggregate/user: the two $group stages and the two rates
UserAggregate(user) ==
    LET mine == SelectSeq(metrics, LAMBDA m : m.user_id = user)
        n == Len(mine)
        scores == {mine[i].engagement_score : i \in 1..n}
        emotions == {mine[i].facial.emotion : i \in 1..n}
        presence_count == CountOf(mine, LAMBDA m : m.presence.detected)
        total_distractions == CountOf(mine, IsDistracted)
    IN  IF n = 0 THEN Undefined
        ELSE Some([total_datapoints |-> n,
                   avg_engagement |->
                       <<FieldSum(mine, LAMBDA m : m.engagement_score), n>>,
                   max_engagement |-> CHOOSE x \in scores : \A y \in scores : y <= x,
                   min_engagement |-> CHOOSE x \in scores : \A y \in scores : x <= y,
                   avg_posture |-> <<FieldSum(mine, LAMBDA m : m.posture.score), n>>,
                   avg_blink_rate |->
                       <<FieldSum(mine, LAMBDA m : m.facial.blink_rate), n>>,
                   total_distractions |-> total_distractions,
                   presence_count |-> presence_count,
                   presence_rate |-> <<presence_count * 100, n>>,
                   distraction_rate |-> <<total_distractions * 100, n>>,
                   emotion_distribution |->
                       [e \in emotions |->
                           CountOf(mine, LAMBDA m : m.facial.emotion = e)]])

\* GET /sessions/:sessionId/metrics: the counters, then ...session.metrics
SessionMetrics(session, t) ==
    [totalInteractions |-> Len(session.interactions),
     webcamEvents |-> Len(SelectSeq(session.interactions, IsWebcam)),
     pageChanges |->
         Len(SelectSeq(session.interactions, LAMBDA i : i.type = "page_turn")),
     duration |-> IF session.is_active
                  THEN (t - session.start_time) \div 1000
                  ELSE session.duration_seconds,
     isActive |-> session.is_active,
     rest |-> session.metrics]

\* ------------------------------------ GET /analytics/productivity-score
\* A query string that parseInt reads as n, and one it reads as NaN.
Digits(n) == [isNumber |-> TRUE, n |-> n]
NotDigits == [isNumber |-> FALSE, n |-> 0]

\* Exact quotients <<numerator, denominator>>, denominator > 0, in lowest terms.
RECURSIVE GCD(_, _)
GCD(a, b) == IF b = 0 THEN a ELSE GCD(b, a % b)
Reduce(x) ==
    LET g == GCD(Abs(x[1]), x[2])
    IN  IF g = 0 THEN x ELSE <<x[1] \div g, x[2] \div g>>
Whole(n) == <<n, 1>>
RatAdd(x, y) ==
    Reduce(<<x[1] * (y[2] \div GCD(x[2], y[2])) + y[1] * (x[2] \div GCD(x[2], y[2])),
             x[2] * (y[2] \div GCD(x[2], y[2]))>>)
RatTimes(k, x) == Reduce(<<(k \div GCD(k, x[2])) * x[1], x[2] \div GCD(k, x[2])>>)
RatLeq(x, y) == x[1] * y[2] <= y[1] * x[2]
\* Math.min and Math.max
RatMin(x, y) == IF RatLeq(x, y) THEN x ELSE y
RatMax(x, y) == IF RatLeq(x, y) THEN y ELSE x
\* Math.round of a quotient that is not negative
RatRound(x) == MathRound(x[1], x[2])

\* A Session document of the store: end is NoDate while the session is active.
StoredSession(student, start, end) ==
    [exists |-> TRUE, student_id |-> student, is_active |-> (end = NoDate),
     start_time |-> start, end_time |-> end,
     duration_seconds |-> IF end = NoDate THEN 0 ELSE (end - start) \div 1000,
     interactions |-> <<>>, metrics |-> EmptyObject]

\* cutoffDate.setDate(cutoffDate.getDate() - days)
\* (a day at a time)
RECURSIVE CutoffDate(_, _)
CutoffDate(t, days) ==
    IF days = 0 THEN t
    ELSE IF days > 0 THEN CutoffDate(t - DayMs, days - 1)
    ELSE CutoffDate(t + DayMs, days + 1)

\* Session.find({ user_id, start_time: { $gte: cutoffDate }, ... }): the schema
\* of Session has no user_id and no status. An unknown path is dropped from the
\* filter when strictQuery is on, and matches no document when it is off.
FindSessionsSince(docs, cutoffDate) ==
    IF strictQuery
    THEN SelectSeq(docs, LAMBDA s : s.start_time >= cutoffDate)
    ELSE <<>>

\* sessions.reduce(... sum + (s.end_time - s.start_time) ...), in milliseconds
TotalTimeMs(found) ==
    SumSeq([i \in 1..Len(found) |->
               IF found[i].end_time # NoDate
               THEN found[i].end_time - found[i].start_time ELSE 0])

\* Metric.aggregate([{ $match: { user_id, timestamp: { $gte } } }, { $group }])
EngagementData(user, cutoffDate) ==
    LET mine == SelectSeq(metrics, LAMBDA m :
                    m.user_id = user /\ m.timestamp >= cutoffDate)
        n == Len(mine)
    IN  IF n = 0 THEN Undefined
        ELSE Some([avg_engagement |->
                       Reduce(<<FieldSum(mine, LAMBDA m : m.engagement_score), n>>),
                   presence_rate |->
                       Reduce(<<CountOf(mine, LAMBDA m : m.presence.detected), n>>),
                   distraction_rate |-> Reduce(<<CountOf(mine, IsDistracted), n>>)])

\* Highlight.countDocuments({ user_id, createdAt: { $gte } }): the schema names
\* the field created_at, so createdAt is an unknown path.
CountHighlights(user, cutoffDate) ==
    IF strictQuery
    THEN Len(SelectSeq(highlights, LAMBDA h : h.user_id = user))
    ELSE 0

sessionScore(totalSessions, days) ==
    RatMin(Whole(100), Reduce(<<totalSessions * 20, days>>))
\* totalTime is in minutes: (totalTime / (days * 60)) * 100
timeScore(totalTimeMs, days) ==
    RatMin(Whole(100), Reduce(<<totalTimeMs, 36000 * days>>))
engagementScore(engagementData) ==
    IF engagementData = Undefined THEN Whole(0)
    ELSE engagementData[1].avg_engagement
presenceScore(engagementData) ==
    IF engagementData = Undefined THEN Whole(0)
    ELSE RatTimes(100, engagementData[1].presence_rate)
focusScore(engagementData) ==
    IF engagementData = Undefined THEN Whole(100)
    ELSE RatMax(Whole(0), RatAdd(Whole(100),
                   RatTimes(100, <<0 - engagementData[1].distraction_rate[1],
                                   engagementData[1].distraction_rate[2]>>)))
\* the activity sub-score without its cap
activityScore_NoCap(notes, days) == Reduce(<<notes * 5, days>>)
activityScore(notes, days) == RatMin(Whole(100), Reduce(<<notes * 5, days>>))

\* the six sub-scores, in the order of the weights
SubScores(days, found, engagementData, notes) ==
    <<sessionScore(Len(found), days), timeScore(TotalTimeMs(found), days),
      engagementScore(engagementData), presenceScore(engagementData),
      focusScore(engagementData), activityScore(notes, days)>>

\* the weights, in hundredths
Weights == <<15, 20, 25, 15, 15, 10>>

RECURSIVE WeightedSum(_, _)
WeightedSum(scores, i) ==
    IF i > Len(scores) THEN Whole(0)
    ELSE RatAdd(Reduce(<<Weights[i] * scores[i][1], 100 * scores[i][2]>>),
                WeightedSum(scores, i + 1))

GradeOf(overall_score) ==
    IF RatLeq(Whole(90), overall_score) THEN "A+"
    ELSE IF RatLeq(Whole(85), overall_score) THEN "A"
    ELSE IF RatLeq(Whole(80), overall_score) THEN "A-"
    ELSE IF RatLeq(Whole(70), overall_score) THEN "B"
    ELSE IF RatLeq(Whole(60), overall_score) THEN "C"
    ELSE "D"

\* productivityScore, the data of the response
ProductivityScore(scores) ==
    [overall_score |-> RatRound(WeightedSum(scores, 1)),
     grade |-> GradeOf(WeightedSum(scores, 1)),
     components |-> [session_consistency |-> RatRound(scores[1]),
                     study_time |-> RatRound(scores[2]),
                     engagement |-> RatRound(scores[3]),
                     presence |-> RatRound(scores[4]),
                     focus |-> RatRound(scores[5]),
                     activity |-> RatRound(scores[6])]]

\* ------------------------------------------------ GET /analytics/analytics
\* The query of a request: period, startDate and endDate, each absent or given.
DateQueryOf(period, startDate, endDate) ==
    [period |-> period, startDate |-> startDate, endDate |-> endDate]

\* endOfDay.setHours(23, 59, 59, 999)
EndOfDay(t) == StartOfDay(t) + DayMs - 1

\* createDateQuery: the bounds { $gte, $lte } on the field; no $lte is Undefined
createDateQuery(query, t) ==
    IF query.startDate # Undefined /\ query.endDate # Undefined
    THEN [gte |-> query.startDate[1], lte |-> Some(EndOfDay(query.endDate[1]))]
    ELSE LET parsed == IF query.period = Undefined THEN NotDigits ELSE query.period[1]
             \* parseInt(period) || 30
             days == IF parsed.isNumber /\ parsed.n # 0 THEN parsed.n ELSE 30
         IN  [gte |-> CutoffDate(t, days), lte |-> Undefined]

WithinDates(value, dateQuery) ==
    /\ value >= dateQuery.gte
    /\ dateQuery.lte # Undefined => value <= dateQuery.lte[1]

\* Session.find({ user_id: req.user._id, ...sessionDateQuery })
FindSessionsWithin(docs, dateQuery) ==
    IF strictQuery
    THEN SelectSeq(docs, LAMBDA s : WithinDates(s.start_time, dateQuery))
    ELSE <<>>

\* Session.find({ user_id, status: 'completed' }).sort({ start_time: -1 })
FindCompletedStarts(docs) ==
    IF strictQuery
    THEN SortDesc({docs[i].start_time : i \in 1..Len(docs)})
    ELSE <<>>

\* Math.round(engagementStats[0]?.avg_engagement) || 0
AvgEngagement(user, dateQuery) ==
    LET mine == SelectSeq(metrics, LAMBDA m :
                    m.user_id = user /\ WithinDates(m.timestamp, dateQuery))
    IN  IF Len(mine) = 0 THEN 0
        ELSE MathRound(FieldSum(mine, LAMBDA m : m.engagement_score), Len(mine))

\* the body of the response
DashboardOf(user, query, t) ==
    LET found == FindSessionsWithin(sessions, createDateQuery(query, t))
        oneWeekAgo == CutoffDate(t, 7)
        ofThisWeek == SelectSeq(found, LAMBDA s : s.start_time >= oneWeekAgo)
    IN  [totalHours |-> MathRound(TotalTimeMs(found), 3600000),
         thisWeek |-> MathRound(TotalTimeMs(ofThisWeek), 3600000),
         avgEngagement |-> AvgEngagement(user, createDateQuery(query, t)),
         \* s.status === 'completed': a Session document has no status
         completedSessions |-> 0,
         streak |-> currentStreakOf(FindCompletedStarts(sessions), t),
         rank |-> 5]

\* ------------------------------------------------------- Room documents
\* models/Room.js: the fields the roster routes read and write; version is
\* the document's __v
RoomDoc(code, teacher_id, allowed_students, max_students) ==
    [code |-> code, is_active |-> TRUE, teacher_id |-> teacher_id,
     allowed_students |-> allowed_students, max_students |-> max_students,
     version |-> 0]

isStudentAllowed(room, studentId) ==
    \E k \in 1..Len(room.allowed_students) : room.allowed_students[k] = studentId

\* addStudent: "ok" when it pushed, otherwise the Error it throws
addStudentOutcome(room, studentId) ==
    IF isStudentAllowed(room, studentId) THEN "Student already added to room"
    ELSE IF Len(room.allowed_students) >= room.max_students THEN "Room is full"
    ELSE "ok"

addStudent(room, studentId) ==
    [room EXCEPT !.allowed_students = Append(@, studentId)]

removeStudent(room, studentId) ==
    [room EXCEPT !.allowed_students = SelectSeq(@, LAMBDA id : id # studentId)]

\* pre('save'): the first next(error) settles the hook, the next() after it
\* is ignored
RoomPreSaveOk(room) == Len(room.allowed_students) <= room.max_students

\* save() of a document whose array was pushed to: $push of the new element
\* and $inc of __v, filtered on _id alone
SavePushed(stored, studentId) ==
    [stored EXCEPT !.allowed_students = Append(@, studentId),
                   !.version = @ + 1]

\* save() of a document whose array was assigned: $set of the whole array,
\* filtered on _id and on the __v that was loaded
SaveAssignedMatches(stored, doc) == stored.version = doc.version
SaveAssigned(stored, doc) ==
    [stored EXCEPT !.allowed_students = doc.allowed_students,
                   !.version = @ + 1]

\* ---------------------------------------------------- refresh tokens
\* Time in this section is counted in weeks. A refresh token is a JWT: its
\* string is determined by its payload { userId, iat, exp }; iat is a week
\* and a second of that week, and forged stands for a string jwt.verify
\* rejects.
Jwt(userId, iat, exp) == [userId |-> userId, iat |-> iat, exp |-> exp, forged |-> FALSE]
ForgedJwt == [userId |-> "u1", iat |-> <<0, 0>>, exp |-> 0, forged |-> TRUE]

\* saveRefreshToken: expires_at is seven days after the creation
RecordLifetime == 1
\* JWT_REFRESH_EXPIRY: '7d' unless the environment sets another span
RefreshExpiries == {1, 2}

RefreshTokenDoc(user_id, token, expires_at) ==
    [user_id |-> user_id, token |-> token, expires_at |-> expires_at,
     revoked |-> FALSE]

isExpired(doc, t) == t >= doc.expires_at
isActive(doc, t) == ~doc.revoked /\ ~isExpired(doc, t)

revoke(doc) == [doc EXCEPT !.revoked = TRUE]
revokeAllForUser(docs, userId) ==
    [k \in 1..Len(docs) |->
        IF docs[k].user_id = userId /\ ~docs[k].revoked
        THEN [docs[k] EXCEPT !.revoked = TRUE] ELSE docs[k]]
\* the TTL index on expires_at (expireAfterSeconds: 0)
TtlExpired(docs, t) == SelectSeq(docs, LAMBDA d : ~(d.expires_at <= t))

\* jwt.verify: the name of the error it throws, or "ok"
VerifyRefresh(token, t) ==
    IF token.forged THEN "JsonWebTokenError"
    ELSE IF t >= token.exp THEN "TokenExpiredError"
    ELSE "ok"

\* RefreshToken.findOne({ token, user_id })
FindTokenDoc(docs, token, userId) ==
    LET hits == SelectSeq(docs, LAMBDA d : d.token = token /\ d.user_id = userId)
    IN  IF hits = <<>> THEN Undefined ELSE Some(hits[1])

\* RefreshToken.deleteOne({ token }) and deleteMany({ user_id })
DeleteToken(docs, token) == SelectSeq(docs, LAMBDA d : d.token # token)
DeleteTokensOf(docs, userId) == SelectSeq(docs, LAMBDA d : d.user_id # userId)

\* POST /auth/refresh: the status of the answer
RefreshStatus(docs, users, body, t) ==
    IF body = Undefined THEN 401
    ELSE IF VerifyRefresh(body[1], t) # "ok" THEN 403
    ELSE IF FindTokenDoc(docs, body[1], body[1].userId) = Undefined THEN 403
    ELSE IF body[1].userId \notin users THEN 403
    ELSE 200

\* ------------------------------------------------------ route dispatch
\* A path is the sequence of its segments below the router's mount point; a
\* pattern segment is a literal or a parameter, and a parameter matches any
\* one segment.
Lit(s) == [param |-> FALSE, name |-> s]
Par(s) == [param |-> TRUE, name |-> s]
Route(method, pattern, handler) ==
    [method |-> method, pattern |-> pattern, handler |-> handler]

\* routes/rooms.js, in registration order
roomsRoutes ==
    << Route("POST", <<>>, "POST /"),
       Route("GET", <<>>, "GET /"),
       Route("GET", <<Par("id")>>, "GET /:id"),
       Route("PUT", <<Par("id")>>, "PUT /:id"),
       Route("DELETE", <<Par("id")>>, "DELETE /:id"),
       Route("POST", <<Lit("join")>>, "POST /join"),
       Route("POST", <<Par("id"), Lit("add-student")>>, "POST /:id/add-student"),
       Route("POST", <<Par("id"), Lit("remove-student")>>, "POST /:id/remove-student"),
       Route("POST", <<Par("id"), Lit("pdf"), Lit("upload")>>, "POST /:id/pdf/upload"),
       Route("GET", <<Par("id"), Lit("pdf")>>, "GET /:id/pdf"),
       Route("GET", <<Par("id"), Lit("students")>>, "GET /:id/students"),
       Route("GET", <<Par("id"), Lit("metrics")>>, "GET /:id/metrics"),
       Route("GET", <<Lit("stats")>>, "GET /stats") >>

\* the interactions router, in registration order
interactionsRoutes ==
    << Route("POST", <<Par("sessionId")>>, "POST /:sessionId"),
       Route("POST", <<Par("sessionId"), Lit("batch")>>, "POST /:sessionId/batch"),
       Route("GET", <<Par("sessionId")>>, "GET /:sessionId"),
       Route("DELETE", <<Par("interactionId")>>, "DELETE /:interactionId"),
       Route("GET", <<Lit("analytics"), Lit("overall")>>, "GET /analytics/overall"),
       Route("GET", <<Par("sessionId"), Lit("analytics")>>, "GET /:sessionId/analytics"),
       Route("POST", <<Lit("share-report")>>, "POST /share-report") >>

\* server.js: the routers by mount point
RouterAt(mount) ==
    IF mount = "/api/rooms" THEN roomsRoutes ELSE interactionsRoutes

MatchesPattern(pattern, path) ==
    /\ Len(pattern) = Len(path)
    /\ \A i \in 1..Len(pattern) : pattern[i].param \/ pattern[i].name = path[i]

MatchesRoute(route, method, path) ==
    route.method = method /\ MatchesPattern(route.pattern, path)

\* the router runs the first registered route that matches; no handler of
\* these routers passes the request on, so the later ones never see it;
\* 0 when none matches
Dispatch(routes, method, path) ==
    IF \E r \in 1..Len(routes) : MatchesRoute(routes[r], method, path)
    THEN CHOOSE r \in 1..Len(routes) :
             /\ MatchesRoute(routes[r], method, path)
             /\ \A q \in 1..(r - 1) : ~MatchesRoute(routes[q], method, path)
    ELSE 0

\* the handler that answers: a route of the router, or server.js's 404
ServedBy(mount, method, path) ==
    LET r == Dispatch(RouterAt(mount), method, path)
    IN  IF r = 0 THEN "Route not found" ELSE RouterAt(mount)[r].handler

\* ============================================================ specifications
Clients == 1..MaxClients
IdleSessions == [s \in SessionIds |-> NoSession]
IdleRequest == [pc |-> "idle", user |-> "u1", sid |-> 1]
IdleReq == [c \in Clients |-> IdleRequest]

\* ---------------------------------------- _calculateBlinkCompliance alone
InitBlink ==
    /\ blinkRate \in (0 - MaxBelowZero)..MaxBlinkRate
    /\ compliance = Undefined
    /\ sessions = IdleSessions /\ req = IdleReq /\ now = 0
    /\ finalMetrics = Undefined /\ metrics = <<>> /\ anomalies = Undefined
    /\ allSessions = <<>> /\ streak = Undefined
    /\ resp = <<>> /\ strictQuery = FALSE /\ highlights = <<>>
    /\ rooms = <<>> /\ refreshTokens = <<>>

CallBlinkCompliance ==
    /\ compliance = Undefined
    /\ compliance' = Some(_calculateBlinkCompliance(blinkRate))
    /\ UNCHANGED <<sessions, req, now, finalMetrics, metrics, anomalies,
                   allSessions, streak, blinkRate,
                   resp, strictQuery, highlights, rooms, refreshTokens>>

NextBlink == CallBlinkCompliance
SpecBlink == InitBlink /\ [][NextBlink]_vars

\* ------------------------------------- calculateFinalMetrics over a store
\* the postureScore and blinkRate of a sample: missing, negative, above 100, usual
PostureAndBlink ==
    {<<Undefined, Undefined>>, <<Some(-20), Some(120)>>, <<Some(130), Some(20)>>,
     <<Some(85), Some(-30)>>, <<Some(85), Some(20)>>}
OptionalBool == {Undefined, Some(TRUE), Some(FALSE)}
Durations == {0, 90}

\* samples that differ in hasPhone only, and a highlight between them
PhoneItems ==
    {Interaction("webcam", WebcamData(Some(TRUE), Some(85), Some(20), p), 0) :
        p \in OptionalBool}
    \cup {Interaction("highlight", OtherData, 0)}

\* samples that differ in attention, posture and blink rate
ScoreItems ==
    {Interaction("webcam", WebcamData(Some(l), pb[1], pb[2], Some(FALSE)), 0) :
        l \in BOOLEAN, pb \in PostureAndBlink}

\* the interactions arrive one second apart
Stamped(f) == [i \in 1..Len(f) |-> Interaction(f[i].type, f[i].data, 1000 * i)]

EndedSession(interactions, dur) ==
    [exists |-> TRUE, student_id |-> "u1", is_active |-> FALSE,
     start_time |-> 0, end_time |-> 1000 * dur, duration_seconds |-> dur,
     interactions |-> interactions, metrics |-> EmptyObject]

FinalInputs ==
    {EndedSession(Stamped(f), d) : f \in SeqsUpTo(PhoneItems, MaxPhoneLen), d \in Durations}
    \cup {EndedSession(Stamped(f), 90) : f \in SeqsUpTo(ScoreItems, MaxScoreLen)}

InitFinal ==
    /\ \E ses \in FinalInputs :
          sessions = [s \in SessionIds |-> IF s = 1 THEN ses ELSE NoSession]
    /\ finalMetrics = Undefined
    /\ req = IdleReq /\ now = 0
    /\ metrics = <<>> /\ anomalies = Undefined
    /\ allSessions = <<>> /\ streak = Undefined
    /\ blinkRate = 0 /\ compliance = Undefined
    /\ resp = <<>> /\ strictQuery = FALSE /\ highlights = <<>>
    /\ rooms = <<>> /\ refreshTokens = <<>>

CallCalculateFinalMetrics(sessionId) ==
    /\ finalMetrics = Undefined
    /\ finalMetrics' = <<sessionId, calculateFinalMetrics(sessionId)>>
    /\ UNCHANGED <<sessions, req, now, metrics, anomalies, allSessions, streak,
                   blinkRate, compliance,
                   resp, strictQuery, highlights, rooms, refreshTokens>>

NextFinal == \E sessionId \in SessionIds : CallCalculateFinalMetrics(sessionId)
SpecFinal == InitFinal /\ [][NextFinal]_vars

\* --------------------------------------- detectAnomalies over a collection
DropScores == {20, 39, 40, 50, 80, 90}

AbsenceInputs ==
    {[i \in 1..Len(f) |-> Sample(1, 1000 * i, f[i], 70)] :
        f \in SeqsUpTo(BOOLEAN, MaxAbsenceLen)}

DropInputs ==
    {[i \in 1..Len(f) |-> Sample(f[i][1], 1000 * i, TRUE, f[i][2])] :
        f \in SeqsUpTo(SessionIds \X DropScores, MaxDropLen)}

InitAnomaly ==
    /\ metrics \in AbsenceInputs \cup DropInputs
    /\ anomalies = Undefined
    /\ sessions = IdleSessions /\ req = IdleReq /\ now = 0
    /\ finalMetrics = Undefined
    /\ allSessions = <<>> /\ streak = Undefined
    /\ blinkRate = 0 /\ compliance = Undefined
    /\ resp = <<>> /\ strictQuery = FALSE /\ highlights = <<>>
    /\ rooms = <<>> /\ refreshTokens = <<>>

CallDetectAnomalies(sessionId) ==
    /\ anomalies = Undefined
    /\ anomalies' = <<sessionId, detectAnomalies(sessionId)>>
    /\ UNCHANGED <<sessions, req, now, finalMetrics, metrics, allSessions,
                   streak, blinkRate, compliance,
                   resp, strictQuery, highlights, rooms, refreshTokens>>

NextAnomaly == \E sessionId \in SessionIds : CallDetectAnomalies(sessionId)
SpecAnomaly == InitAnomaly /\ [][NextAnomaly]_vars

\* ------------------------------------------ the streak of the dashboard
HourMs == 1000 * 60 * 60
StreakNow == 8 * DayMs + 12 * HourMs
\* one session at 09:00 on each day from tomorrow back, and a second one today
CandidateStarts ==
    {StartOfDay(StreakNow) - k * DayMs + 9 * HourMs : k \in (-1)..MaxDaysBack}
    \cup {StartOfDay(StreakNow) + 15 * HourMs}

InitStreak ==
    /\ allSessions \in {SortDesc(S) : S \in SUBSET CandidateStarts}
    /\ now = StreakNow
    /\ streak = Undefined
    /\ sessions = IdleSessions /\ req = IdleReq
    /\ finalMetrics = Undefined /\ metrics = <<>> /\ anomalies = Undefined
    /\ blinkRate = 0 /\ compliance = Undefined
    /\ resp = <<>> /\ strictQuery = FALSE /\ highlights = <<>>
    /\ rooms = <<>> /\ refreshTokens = <<>>

GetAnalytics ==
    /\ streak = Undefined
    /\ streak' = Some(currentStreakOf(allSessions, now))
    /\ UNCHANGED <<sessions, req, now, finalMetrics, metrics, anomalies,
                   allSessions, blinkRate, compliance,
                   resp, strictQuery, highlights, rooms, refreshTokens>>

NextStreak == GetAnalytics
SpecStreak == InitStreak /\ [][NextStreak]_vars

\* ------------------------------------- the session store and its handlers
TickMs == 500

\* what a client posts to POST /interactions/:sessionId here
PostedItems ==
    {<<"webcam", WebcamData(Some(TRUE), Some(85), Some(20), Some(FALSE))>>,
     <<"highlight", OtherData>>}

InitSession ==
    /\ sessions = IdleSessions
    /\ req = IdleReq
    /\ now = 0
    /\ finalMetrics = Undefined /\ metrics = <<>> /\ anomalies = Undefined
    /\ allSessions = <<>> /\ streak = Undefined
    /\ blinkRate = 0 /\ compliance = Undefined
    /\ resp = <<>> /\ strictQuery = FALSE /\ highlights = <<>>
    /\ rooms = <<>> /\ refreshTokens = <<>>

\* the handler answers with a status and its request is over
Respond(c, status) == req' = [req EXCEPT ![c] = IdleRequest]
Continue(c, pc, user, sid) ==
    req' = [req EXCEPT ![c] = [pc |-> pc, user |-> user, sid |-> sid]]

ActiveOf(student) ==
    {s \in SessionIds : sessions[s].exists /\ sessions[s].student_id = student
                          /\ sessions[s].is_active}

\* is_active = false; end_time = new Date(); duration_seconds = floor(ms / 1000); save()
Ended(session, t) ==
    [session EXCEPT !.is_active = FALSE,
                    !.end_time = t,
                    !.duration_seconds = (t - session.start_time) \div 1000]

\* the clock advances
Tick ==
    /\ now < MaxTicks * TickMs
    /\ now' = now + TickMs
    /\ UNCHANGED <<sessions, req, finalMetrics, metrics, anomalies, allSessions,
                   streak, blinkRate, compliance,
                   resp, strictQuery, highlights, rooms, refreshTokens>>

\* POST /sessions up to the answer of Session.findOne({ student_id, is_active: true })
CreateSessionFind(c, user, valid) ==
    /\ req[c].pc = "idle"
    /\ IF ~valid THEN Respond(c, 400)
       ELSE IF ActiveOf(user) = {} THEN Continue(c, "create_save", user, 1)
       ELSE Continue(c, "create_autoend", user,
                     CHOOSE s \in ActiveOf(user) : \A o \in ActiveOf(user) : s <= o)
    /\ UNCHANGED <<sessions, now, finalMetrics, metrics, anomalies, allSessions,
                   streak, blinkRate, compliance,
                   resp, strictQuery, highlights, rooms, refreshTokens>>

\* POST /sessions: the orphaned session found is ended and saved
CreateSessionAutoEnd(c) ==
    /\ req[c].pc = "create_autoend"
    /\ sessions' = [sessions EXCEPT ![req[c].sid] = Ended(sessions[req[c].sid], now)]
    /\ Continue(c, "create_save", req[c].user, req[c].sid)
    /\ UNCHANGED <<now, finalMetrics, metrics, anomalies, allSessions, streak,
                   blinkRate, compliance,
                   resp, strictQuery, highlights, rooms, refreshTokens>>

\* POST /sessions: the new session is saved and 201 answered
CreateSessionSave(c) ==
    /\ req[c].pc = "create_save"
    /\ \E s \in SessionIds :
          /\ ~sessions[s].exists
          /\ \A o \in SessionIds : o < s => sessions[o].exists
          /\ sessions' = [sessions EXCEPT ![s] = NewSession(req[c].user, now)]
    /\ Respond(c, 201)
    /\ UNCHANGED <<now, finalMetrics, metrics, anomalies, allSessions, streak,
                   blinkRate, compliance,
                   resp, strictQuery, highlights, rooms, refreshTokens>>

\* PATCH /sessions/:sessionId/end up to the checks on the document found
EndSessionFind(c, user, sessionId) ==
    /\ req[c].pc = "idle"
    /\ IF ~sessions[sessionId].exists THEN Respond(c, 404)
       ELSE IF sessions[sessionId].student_id # user THEN Respond(c, 403)
       ELSE IF ~sessions[sessionId].is_active THEN Respond(c, 400)
       ELSE Continue(c, "end_save", user, sessionId)
    /\ UNCHANGED <<sessions, now, finalMetrics, metrics, anomalies, allSessions,
                   streak, blinkRate, compliance,
                   resp, strictQuery, highlights, rooms, refreshTokens>>

\* PATCH /sessions/:sessionId/end: the three fields are set, saved and 200 answered
EndSessionSave(c) ==
    /\ req[c].pc = "end_save"
    /\ sessions' = [sessions EXCEPT ![req[c].sid] = Ended(sessions[req[c].sid], now)]
    /\ Respond(c, 200)
    /\ UNCHANGED <<now, finalMetrics, metrics, anomalies, allSessions, streak,
                   blinkRate, compliance,
                   resp, strictQuery, highlights, rooms, refreshTokens>>

\* POST /interactions/:sessionId by the owner of an existing session
LogInteraction(user, sessionId, item) ==
    /\ sessions[sessionId].exists
    /\ sessions[sessionId].student_id = user
    /\ Len(sessions[sessionId].interactions) < MaxInteractions
    /\ sessions' = [sessions EXCEPT ![sessionId].interactions =
                        Append(@, Interaction(item[1], item[2], now))]
    /\ UNCHANGED <<req, now, finalMetrics, metrics, anomalies, allSessions, streak,
                   blinkRate, compliance,
                   resp, strictQuery, highlights, rooms, refreshTokens>>

\* cleanup.js: Session.updateMany({ is_active: true }, { is_active: false, end_time: new Date() })
Cleanup ==
    /\ sessions' = [s \in SessionIds |->
                      IF sessions[s].exists /\ sessions[s].is_active
                      THEN [sessions[s] EXCEPT !.is_active = FALSE, !.end_time = now]
                      ELSE sessions[s]]
    /\ UNCHANGED <<req, now, finalMetrics, metrics, anomalies, allSessions, streak,
                   blinkRate, compliance, resp, strictQuery,
                   highlights, rooms, refreshTokens>>

NextSession ==
    \/ Tick
    \/ Cleanup
    \/ \E c \in Clients, user \in Students, valid \in BOOLEAN :
          CreateSessionFind(c, user, valid)
    \/ \E c \in Clients : CreateSessionAutoEnd(c)
    \/ \E c \in Clients : CreateSessionSave(c)
    \/ \E c \in Clients, user \in Students, sessionId \in SessionIds :
          EndSessionFind(c, user, sessionId)
    \/ \E c \in Clients : EndSessionSave(c)
    \/ \E user \in Students, sessionId \in SessionIds, item \in PostedItems :
          LogInteraction(user, sessionId, item)

Spec == InitSession /\ [][NextSession]_vars

\* -------------------------------------- getEngagementTrend and its route
\* Timestamps on both sides of a one-minute and of a five-minute boundary.
TrendTimestamps == {59999, 60000, 300000}
TrendItems ==
    {MetricDoc(HexRef(sid), "u1", ts, TRUE, e[1], e[2], DefaultHealth) :
        sid \in SessionIds, ts \in TrendTimestamps,
        e \in {<<40, PhoneDistraction>>, <<85, DefaultDistraction>>}}

\* The ?interval= of the query: absent, or the digits of a number.
TrendIntervals == {Undefined, Some(0), Some(1), Some(5)}
IntervalOrDefault(interval) == IF interval = Undefined THEN 5 ELSE interval[1]

InitTrend ==
    /\ metrics \in SeqsUpTo(TrendItems, MaxTrendLen)
    /\ resp = <<>> /\ strictQuery = FALSE /\ highlights = <<>>
    /\ rooms = <<>> /\ refreshTokens = <<>>
    /\ sessions = IdleSessions /\ req = IdleReq /\ now = 0
    /\ finalMetrics = Undefined /\ anomalies = Undefined
    /\ allSessions = <<>> /\ streak = Undefined
    /\ blinkRate = 0 /\ compliance = Undefined

\* The :sessionId of a request: the id of a session with samples, or the uuid
\* that Session gives its documents.
TrendRefs == {HexRef(k) : k \in SessionIds} \cup {UuidRef(1)}

\* Metric.getEngagementTrend called directly: new ObjectId(sessionId) throws
\* on a string that is no ObjectId, and the aggregation rejects $mod by 0
CallGetEngagementTrend(sessionId, intervalMinutes) ==
    /\ resp = <<>>
    /\ CastsToObjectId(sessionId)
    /\ intervalMinutes > 0
    /\ resp' = <<Response("Metric.getEngagementTrend", "u1", sessionId, 200,
                          <<intervalMinutes,
                            getEngagementTrend(sessionId, intervalMinutes)>>)>>
    /\ UNCHANGED <<sessions, req, now, finalMetrics, metrics, anomalies,
                   allSessions, streak, blinkRate, compliance, strictQuery,
                   highlights, rooms, refreshTokens>>

\* GET /metrics/session/:sessionId/trend
GetTrend(user, sessionId, interval) ==
    /\ resp = <<>>
    /\ LET minutes == IntervalOrDefault(interval)
       IN  resp' =
             IF ~CastsToObjectId(sessionId) \/ minutes = 0
             THEN <<Response("trend", user, sessionId, 500, <<>>)>>
             ELSE <<Response("trend", user, sessionId, 200,
                     FormattedTrend(getEngagementTrend(sessionId, minutes)))>>
    /\ UNCHANGED <<sessions, req, now, finalMetrics, metrics, anomalies,
                   allSessions, streak, blinkRate, compliance, strictQuery,
                   highlights, rooms, refreshTokens>>

NextTrend ==
    \/ \E sessionId \in TrendRefs, m \in {1, 5} :
           CallGetEngagementTrend(sessionId, m)
    \/ \E user \in Students, sessionId \in TrendRefs, i \in TrendIntervals :
           GetTrend(user, sessionId, i)
SpecTrend == InitTrend /\ [][NextTrend]_vars

\* ------------------------------------- the write handlers, one at a time
HexIds == {1}
SessionRefs == {UuidRef(s) : s \in SessionIds} \cup {HexRef(k) : k \in HexIds}
MetricBodies ==
    {MetricBody(sid, b[1], b[2]) :
        sid \in {Undefined} \cup {Some(r) : r \in SessionRefs},
        b \in {<<Undefined, Undefined>>, <<Some(50), Undefined>>,
               <<Some(50), Some(TiredHealth)>>}}

\* an element of a batch of interactions whose type is none of the valid ones
UnknownItem == <<"teleport", OtherData>>

\* session 1 is u1's, session 2 is u2's, a further id names no session
InitIngest ==
    /\ sessions = [s \in SessionIds |->
                     IF s = 1 THEN NewSession("u1", 0)
                     ELSE IF s = 2 THEN NewSession("u2", 0)
                     ELSE NoSession]
    /\ metrics = <<>>
    /\ resp = <<>>
    /\ strictQuery \in BOOLEAN /\ highlights = <<>>
    /\ rooms = <<>> /\ refreshTokens = <<>>
    /\ now = 2 * TickMs
    /\ req = IdleReq
    /\ finalMetrics = Undefined /\ anomalies = Undefined
    /\ allSessions = <<>> /\ streak = Undefined
    /\ blinkRate = 0 /\ compliance = Undefined

\* POST /metrics
PostMetric(user, body) ==
    /\ Len(resp) < MaxRequests
    /\ LET Answer(status, created) ==
               resp' = Append(resp, Response("POST /metrics", user, body,
                                             status, created))
       IN  IF body.session_id = Undefined \/ body.engagement_score = Undefined
           THEN Answer(400, <<>>) /\ UNCHANGED metrics
           ELSE IF FindSessionOfUser(body.session_id[1], user) = Undefined
           THEN Answer(404, <<>>) /\ UNCHANGED metrics
           ELSE IF ~IsValidMetric(body)
           THEN Answer(500, <<>>) /\ UNCHANGED metrics
           ELSE LET metric == PreSave(NewMetric(user, body, now))
                IN  /\ metrics' = Append(metrics, metric)
                    /\ Answer(201, <<metric>>)
    /\ UNCHANGED <<sessions, req, now, finalMetrics, anomalies, allSessions,
                   streak, blinkRate, compliance, strictQuery,
                   highlights, rooms, refreshTokens>>

\* POST /metrics/batch; a body with no array, or an empty one, is <<>>
PostMetricsBatch(user, bodies) ==
    /\ Len(resp) < MaxRequests
    /\ LET Answer(status, created) ==
               resp' = Append(resp, Response("POST /metrics/batch", user,
                                             bodies, status, created))
       IN  IF bodies = Undefined
           THEN Answer(400, <<>>) /\ UNCHANGED metrics
           ELSE LET createdMetrics == insertMany(user, bodies, now)
                IN  /\ metrics' = metrics \o createdMetrics
                    /\ Answer(201, createdMetrics)
    /\ UNCHANGED <<sessions, req, now, finalMetrics, anomalies, allSessions,
                   streak, blinkRate, compliance, strictQuery,
                   highlights, rooms, refreshTokens>>

\* PATCH /sessions/:sessionId/end, from the request to the response
EndSession(user, sessionId) ==
    /\ Len(resp) < MaxRequests
    /\ LET session == SessionAt(sessionId)
           Answer(status) ==
               resp' = Append(resp, Response("PATCH /sessions/:sessionId/end",
                                             user, sessionId, status, <<>>))
       IN  IF ~session.exists THEN Answer(404) /\ UNCHANGED sessions
           ELSE IF session.student_id # user
           THEN Answer(403) /\ UNCHANGED sessions
           ELSE IF ~session.is_active THEN Answer(400) /\ UNCHANGED sessions
           ELSE /\ sessions' = [sessions EXCEPT ![sessionId] = Ended(session, now)]
                /\ Answer(200)
    /\ UNCHANGED <<req, now, finalMetrics, metrics, anomalies, allSessions,
                   streak, blinkRate, compliance, strictQuery,
                   highlights, rooms, refreshTokens>>

\* POST /interactions/:sessionId/batch, from the request to the response;
\* interactions is Some(array), or Undefined when the body holds no array
LogInteractionsBatch(user, sessionId, interactions) ==
    /\ Len(resp) < MaxRequests
    /\ LET session == SessionAt(sessionId)
           Answer(status, added) ==
               resp' = Append(resp, Response("POST /interactions/:sessionId/batch",
                                  user, <<sessionId, interactions>>, status, added))
       IN  IF interactions = Undefined
           THEN Answer(400, <<>>) /\ UNCHANGED sessions
           ELSE IF ~session.exists THEN Answer(404, <<>>) /\ UNCHANGED sessions
           ELSE LET added == interactionsToAdd(interactions[1], now)
                IN  /\ sessions' = [sessions EXCEPT ![sessionId].interactions =
                                       @ \o added]
                    /\ Answer(200, added)
    /\ UNCHANGED <<req, now, finalMetrics, metrics, anomalies, allSessions,
                   streak, blinkRate, compliance, strictQuery,
                   highlights, rooms, refreshTokens>>

NextIngest ==
    \/ \E user \in Students, body \in MetricBodies : PostMetric(user, body)
    \/ \E user \in Students, bodies \in SeqsUpTo(MetricBodies, MaxBatch) :
           PostMetricsBatch(user, bodies)
    \/ \E user \in Students, sessionId \in 0..MaxSessions :
           EndSession(user, sessionId)
    \/ \E user \in Students, sessionId \in 0..MaxSessions,
          items \in SeqsUpTo(PostedItems \cup {UnknownItem}, MaxBatch) :
           \/ LogInteractionsBatch(user, sessionId, Some(items))
           \/ LogInteractionsBatch(user, sessionId, Undefined)
SpecIngest == InitIngest /\ [][NextIngest]_vars

\* ------------------------------- the readers over samples in arrival order
OrderTimestamps == {1000, 2000, 3000}
OrderSamples ==
    {MetricDoc(1, "u1", ts, TRUE, score, DefaultDistraction, DefaultHealth) :
        ts \in OrderTimestamps, score \in {40, 90}}
\* webcam interactions whose timestamp the client sent with the batch
OrderInteractions ==
    {Interaction("webcam", WebcamData(Some(TRUE), Some(85), Some(20), Some(p)), ts) :
        ts \in OrderTimestamps, p \in BOOLEAN}

\* either a Metric collection or a session with interactions, in any order
InitOrder ==
    /\ \/ /\ metrics \in SeqsUpTo(OrderSamples, MaxOrderLen)
          /\ sessions = IdleSessions
       \/ /\ metrics = <<>>
          /\ \E f \in SeqsUpTo(OrderInteractions, MaxOrderLen) :
                sessions = [s \in SessionIds |->
                              IF s = 1 THEN EndedSession(f, 90) ELSE NoSession]
    /\ anomalies = Undefined /\ finalMetrics = Undefined /\ resp = <<>>
    /\ req = IdleReq /\ now = 0 /\ strictQuery = FALSE /\ highlights = <<>>
    /\ rooms = <<>> /\ refreshTokens = <<>>
    /\ allSessions = <<>> /\ streak = Undefined
    /\ blinkRate = 0 /\ compliance = Undefined

CallGetSessionSummary(sessionId) ==
    /\ resp = <<>>
    /\ resp' = <<Response("Metric.getSessionSummary", "u1", sessionId, 200,
                          getSessionSummary(sessionId))>>
    /\ UNCHANGED <<sessions, req, now, finalMetrics, metrics, anomalies,
                   allSessions, streak, blinkRate, compliance, strictQuery,
                   highlights, rooms, refreshTokens>>

NextOrder ==
    \/ \E sessionId \in SessionIds : CallDetectAnomalies(sessionId)
    \/ \E sessionId \in SessionIds : CallGetSessionSummary(sessionId)
    \/ \E sessionId \in SessionIds : CallCalculateFinalMetrics(sessionId)
SpecOrder == InitOrder /\ [][NextOrder]_vars

\* --------------------------------------- concurrent appends to one session
AppendBodies ==
    {MetricBody(Some(r), Some(50), Undefined) : r \in {UuidRef(1), HexRef(1)}}

\* a request between its read and its write: the document it loaded and
\* what it is about to append
Pending(pc, user, sid, loaded, items) ==
    [pc |-> pc, user |-> user, sid |-> sid, loaded |-> loaded, items |-> items]

InFlight == {c \in Clients : req[c].pc # "idle"}
MayStart(c) ==
    /\ req[c].pc = "idle"
    /\ Len(resp) + Cardinality(InFlight) < MaxAppends

InitAppend ==
    /\ sessions = [s \in SessionIds |->
                     IF s = 1 THEN NewSession("u1", 0)
                     ELSE IF s = 2 THEN NewSession("u2", 0)
                     ELSE NoSession]
    /\ metrics = <<>>
    /\ resp = <<>>
    /\ strictQuery \in BOOLEAN /\ highlights = <<>>
    /\ rooms = <<>> /\ refreshTokens = <<>>
    /\ now = 2 * TickMs
    /\ req = IdleReq
    /\ finalMetrics = Undefined /\ anomalies = Undefined
    /\ allSessions = <<>> /\ streak = Undefined
    /\ blinkRate = 0 /\ compliance = Undefined

\* POST /interactions/:sessionId up to the checks on the document found
AppendFind(c, user, sessionId, item) ==
    /\ MayStart(c)
    /\ LET session == SessionAt(sessionId)
           Refuse(status) ==
               /\ resp' = Append(resp, Response("POST /interactions/:sessionId",
                                     user, <<sessionId, item>>, status, <<>>))
               /\ UNCHANGED req
       IN  IF item[1] \notin validTypes THEN Refuse(400)
           ELSE IF ~session.exists THEN Refuse(404)
           ELSE IF session.student_id # user THEN Refuse(403)
           ELSE /\ req' = [req EXCEPT ![c] =
                             Pending("append_save", user, sessionId,
                                     session.interactions, <<item>>)]
                /\ UNCHANGED resp
    /\ UNCHANGED <<sessions, now, finalMetrics, metrics, anomalies, allSessions,
                   streak, blinkRate, compliance, strictQuery,
                   highlights, rooms, refreshTokens>>

\* POST /interactions/:sessionId: push, save and answer
AppendSave(c) ==
    /\ req[c].pc = "append_save"
    /\ LET pushed == [k \in 1..Len(req[c].items) |->
                         Interaction(req[c].items[k][1], req[c].items[k][2], now)]
       IN  /\ sessions' = [sessions EXCEPT ![req[c].sid].interactions =
                              PushAndSave(@, req[c].loaded, pushed)]
           /\ resp' = Append(resp, Response("POST /interactions/:sessionId",
                                 req[c].user, <<req[c].sid, req[c].items[1]>>,
                                 200, pushed))
    /\ req' = [req EXCEPT ![c] = IdleRequest]
    /\ UNCHANGED <<now, finalMetrics, metrics, anomalies, allSessions, streak,
                   blinkRate, compliance, strictQuery,
                   highlights, rooms, refreshTokens>>

\* POST /interactions/:sessionId/batch up to the document found
BatchFind(c, user, sessionId, interactions) ==
    /\ MayStart(c)
    /\ LET session == SessionAt(sessionId)
       IN  IF ~session.exists
           THEN /\ resp' = Append(resp,
                               Response("POST /interactions/:sessionId/batch", user,
                                        <<sessionId, Some(interactions)>>, 404, <<>>))
                /\ UNCHANGED req
           ELSE /\ req' = [req EXCEPT ![c] =
                             Pending("batch_save", user, sessionId,
                                     session.interactions, interactions)]
                /\ UNCHANGED resp
    /\ UNCHANGED <<sessions, now, finalMetrics, metrics, anomalies, allSessions,
                   streak, blinkRate, compliance, strictQuery,
                   highlights, rooms, refreshTokens>>

\* POST /interactions/:sessionId/batch: filter, push, save and answer
BatchSave(c) ==
    /\ req[c].pc = "batch_save"
    /\ LET pushed == interactionsToAdd(req[c].items, now)
       IN  /\ sessions' = [sessions EXCEPT ![req[c].sid].interactions =
                              PushAndSave(@, req[c].loaded, pushed)]
           /\ resp' = Append(resp,
                             Response("POST /interactions/:sessionId/batch",
                                      req[c].user, <<req[c].sid, Some(req[c].items)>>,
                                      200, pushed))
    /\ req' = [req EXCEPT ![c] = IdleRequest]
    /\ UNCHANGED <<now, finalMetrics, metrics, anomalies, allSessions, streak,
                   blinkRate, compliance, strictQuery,
                   highlights, rooms, refreshTokens>>

\* POST /metrics up to the answer of Session.findOne
MetricFind(c, user, body) ==
    /\ MayStart(c)
    /\ LET Refuse(status) ==
               /\ resp' = Append(resp, Response("POST /metrics", user, body,
                                                status, <<>>))
               /\ UNCHANGED req
       IN  IF body.session_id = Undefined \/ body.engagement_score = Undefined
           THEN Refuse(400)
           ELSE IF FindSessionOfUser(body.session_id[1], user) = Undefined
           THEN Refuse(404)
           ELSE /\ req' = [req EXCEPT ![c] =
                             Pending("metric_create", user, 0, <<>>, <<body>>)]
                /\ UNCHANGED resp
    /\ UNCHANGED <<sessions, now, finalMetrics, metrics, anomalies, allSessions,
                   streak, blinkRate, compliance, strictQuery,
                   highlights, rooms, refreshTokens>>

\* POST /metrics: Metric.create inserts one document of its own
MetricCreate(c) ==
    /\ req[c].pc = "metric_create"
    /\ LET body == req[c].items[1]
           metric == PreSave(NewMetric(req[c].user, body, now))
       IN  IF IsValidMetric(body)
           THEN /\ metrics' = Append(metrics, metric)
                /\ resp' = Append(resp, Response("POST /metrics", req[c].user,
                                                 body, 201, <<metric>>))
           ELSE /\ UNCHANGED metrics
                /\ resp' = Append(resp, Response("POST /metrics", req[c].user,
                                                 body, 500, <<>>))
    /\ req' = [req EXCEPT ![c] = IdleRequest]
    /\ UNCHANGED <<sessions, now, finalMetrics, anomalies, allSessions, streak,
                   blinkRate, compliance, strictQuery,
                   highlights, rooms, refreshTokens>>

\* POST /metrics/batch: insertMany inserts each document on its own
MetricsBatchInsert(c, user, bodies) ==
    /\ MayStart(c)
    /\ bodies # <<>>
    /\ LET createdMetrics == insertMany(user, bodies, now)
       IN  /\ metrics' = metrics \o createdMetrics
           /\ resp' = Append(resp, Response("POST /metrics/batch", user, bodies,
                                            201, createdMetrics))
    /\ UNCHANGED <<sessions, req, now, finalMetrics, anomalies, allSessions,
                   streak, blinkRate, compliance, strictQuery,
                   highlights, rooms, refreshTokens>>

NextAppend ==
    \/ \E c \in Clients, user \in Students, item \in PostedItems :
           AppendFind(c, user, 1, item)
    \/ \E c \in Clients : AppendSave(c)
    \/ \E c \in Clients, user \in Students,
          items \in SeqsUpTo(PostedItems, MaxBatch) : BatchFind(c, user, 1, items)
    \/ \E c \in Clients : BatchSave(c)
    \/ \E c \in Clients, user \in Students, body \in AppendBodies :
           MetricFind(c, user, body)
    \/ \E c \in Clients : MetricCreate(c)
    \/ \E c \in Clients, user \in Students, body \in AppendBodies :
           MetricsBatchInsert(c, user, <<body>>)
SpecAppend == InitAppend /\ [][NextAppend]_vars

\* ------------------------------------- the three streaks over one history
\* the sessions found: each ends on the day it starts
InitStreaks ==
    /\ allSessions \in {SortDesc(S) : S \in SUBSET CandidateStarts}
    /\ now = StreakNow
    /\ resp = <<>> /\ strictQuery = FALSE /\ highlights = <<>>
    /\ rooms = <<>> /\ refreshTokens = <<>>
    /\ streak = Undefined
    /\ sessions = IdleSessions /\ req = IdleReq
    /\ finalMetrics = Undefined /\ metrics = <<>> /\ anomalies = Undefined
    /\ blinkRate = 0 /\ compliance = Undefined

CallCalculateStudyStreak ==
    /\ resp = <<>>
    /\ resp' = <<Response("calculateStudyStreak", "u1", allSessions, 200,
                          calculateStudyStreak(allSessions, now))>>
    /\ UNCHANGED <<sessions, req, now, finalMetrics, metrics, anomalies,
                   allSessions, streak, blinkRate, compliance, strictQuery,
                   highlights, rooms, refreshTokens>>

CallCalculateStreak ==
    /\ resp = <<>>
    /\ resp' = <<Response("calculateStreak", "u1", allSessions, 200,
                          calculateStreak(allSessions, now))>>
    /\ UNCHANGED <<sessions, req, now, finalMetrics, metrics, anomalies,
                   allSessions, streak, blinkRate, compliance, strictQuery,
                   highlights, rooms, refreshTokens>>

\* GET /interactions/analytics/overall, as far as the streak goes
GetOverallAnalytics ==
    /\ resp = <<>>
    /\ resp' = <<Response("GET /interactions/analytics/overall", "u1",
                          allSessions, 200, overallStreak(allSessions, now))>>
    /\ UNCHANGED <<sessions, req, now, finalMetrics, metrics, anomalies,
                   allSessions, streak, blinkRate, compliance, strictQuery,
                   highlights, rooms, refreshTokens>>

NextStreaks ==
    \/ CallCalculateStudyStreak
    \/ CallCalculateStreak
    \/ GetOverallAnalytics
SpecStreaks == InitStreaks /\ [][NextStreaks]_vars

\* ------------------------------------------ the read routes, one request
\* The clock of the requests; the cutoff of /recent lies five minutes before it.
ReadNow == 400000
ReadVariants ==
    {<<1000, TRUE, 85, DefaultDistraction, DefaultHealth>>,
     <<2000, FALSE, 40, PhoneDistraction, DefaultHealth>>,
     <<ReadNow, TRUE, 50, DefaultDistraction, TiredHealth>>}
\* Samples as POST /metrics/batch stores them: their session_id is an ObjectId.
ReadSamples ==
    {MetricDoc(HexRef(k), user, v[1], v[2], v[3], v[4], v[5]) :
        k \in SessionIds, user \in Students, v \in ReadVariants}
\* The :sessionId of a request: the uuid of a Session document, an ObjectId
\* samples may be stored under, or an ObjectId nothing is stored under.
ReadRefs == {UuidRef(s) : s \in SessionIds} \cup {HexRef(k) : k \in 0..MaxSessions}

InitRead ==
    /\ metrics \in SeqsUpTo(ReadSamples, MaxReadLen)
    /\ sessions = [s \in SessionIds |->
                     IF s = 1 THEN NewSession("u1", 0)
                     ELSE IF s = 2
                     THEN [NewSession("u2", 0) EXCEPT
                              !.interactions = <<Interaction("webcam", OtherData, 1000)>>]
                     ELSE NoSession]
    /\ resp = <<>>
    /\ strictQuery \in BOOLEAN /\ highlights = <<>>
    /\ rooms = <<>> /\ refreshTokens = <<>>
    /\ now = ReadNow
    /\ req = IdleReq
    /\ finalMetrics = Undefined /\ anomalies = Undefined
    /\ allSessions = <<>> /\ streak = Undefined
    /\ blinkRate = 0 /\ compliance = Undefined

\* res.status(status).json(...) of a handler that writes nothing
Reply(route, user, sessionId, status, data) ==
    /\ resp = <<>>
    /\ resp' = <<Response(route, user, sessionId, status, data)>>
    /\ UNCHANGED <<sessions, req, now, finalMetrics, metrics, anomalies,
                   allSessions, streak, blinkRate, compliance, strictQuery,
                   highlights, rooms, refreshTokens>>

\* GET /metrics/session/:sessionId
GetSessionMetrics(user, sessionId) ==
    IF FindSessionOfUser(sessionId, user) = Undefined
    THEN Reply("list", user, sessionId, 404, <<>>)
    ELSE IF ~CastsToObjectId(sessionId)
    THEN Reply("list", user, sessionId, 500, <<>>)
    ELSE Reply("list", user, sessionId, 200, FindSorted(sessionId))

\* GET /metrics/session/:sessionId/summary
GetSummary(user, sessionId) ==
    IF FindSessionOfUser(sessionId, user) = Undefined
    THEN Reply("summary", user, sessionId, 404, <<>>)
    ELSE IF ~CastsToObjectId(sessionId)
    THEN Reply("summary", user, sessionId, 500, <<>>)
    ELSE IF getSessionSummary(sessionId) = Undefined
    THEN Reply("summary", user, sessionId, 404, <<>>)
    ELSE Reply("summary", user, sessionId, 200, getSessionSummary(sessionId))

\* GET /metrics/session/:sessionId/recent, without ?minutes=
GetRecent(user, sessionId) ==
    IF ~CastsToObjectId(sessionId)
    THEN Reply("recent", user, sessionId, 500, <<>>)
    ELSE Reply("recent", user, sessionId, 200, getRecentMetrics(sessionId, 5, now))

\* GET /metrics/session/:sessionId/anomalies
GetAnomalies(user, sessionId) ==
    IF ~CastsToObjectId(sessionId)
    THEN Reply("anomalies", user, sessionId, 500, <<>>)
    ELSE Reply("anomalies", user, sessionId, 200, detectAnomalies(sessionId))

\* GET /metrics/session/:sessionId/alerts
GetAlerts(user, sessionId) ==
    IF ~CastsToObjectId(sessionId)
    THEN Reply("alerts", user, sessionId, 500, <<>>)
    ELSE LET latest == Reversed(FindSorted(sessionId))
         IN  IF latest = <<>>
             THEN Reply("alerts", user, sessionId, 200, <<>>)
             ELSE Reply("alerts", user, sessionId, 200, getAlerts(latest[1]))

\* GET /metrics/session/:sessionId/engagement-timeline
GetEngagementTimeline(user, sessionId) ==
    IF ~CastsToObjectId(sessionId)
    THEN Reply("engagement-timeline", user, sessionId, 500, <<>>)
    ELSE Reply("engagement-timeline", user, sessionId, 200,
               EngagementTimeline(FindSorted(sessionId)))

\* GET /metrics/health/:sessionId
GetHealth(user, sessionId) ==
    IF ~CastsToObjectId(sessionId)
    THEN Reply("health", user, sessionId, 500, <<>>)
    ELSE Reply("health", user, sessionId, 200, HealthData(FindSorted(sessionId)))

\* GET /metrics/distractions/:sessionId
GetDistractions(user, sessionId) ==
    IF ~CastsToObjectId(sessionId)
    THEN Reply("distractions", user, sessionId, 500, <<>>)
    ELSE Reply("distractions", user, sessionId, 200,
               DistractionData(FindSorted(sessionId)))

\* GET /metrics/comparison/:sessionId. mongoose.Types.ObjectId is called
\* without new: a class constructor throws there, a function constructor does
\* not, so the build decides between the comparison and a 500.
GetComparison(user, sessionId) ==
    IF ~CastsToObjectId(sessionId)
    THEN Reply("comparison", user, sessionId, 500, <<>>)
    ELSE IF getSessionSummary(sessionId) = Undefined
    THEN Reply("comparison", user, sessionId, 404, <<>>)
    ELSE \/ Reply("comparison", user, sessionId, 500, <<>>)
         \/ Reply("comparison", user, sessionId, 200,
                  Comparison(getSessionSummary(sessionId)[1],
                             HistoricalAvg(user, sessionId)))

\* POST /metrics/export/:sessionId; the body names the format, or nothing
ExportFormats == {Undefined, Some("csv"), Some("xml")}
ExportMetrics(user, sessionId, format) ==
    IF ~CastsToObjectId(sessionId)
    THEN Reply("export", user, sessionId, 500, <<>>)
    ELSE LET found == SelectSeq(FindSorted(sessionId), LAMBDA m : m.user_id = user)
         IN  IF found = <<>>
             THEN Reply("export", user, sessionId, 404, <<>>)
             ELSE IF format \in {Undefined, Some("json"), Some("csv")}
             THEN Reply("export", user, sessionId, 200, found)
             ELSE Reply("export", user, sessionId, 400, <<>>)

\* GET /metrics/aggregate/user, without ?startDate= and ?endDate=
GetUserAggregate(user) ==
    Reply("aggregate/user", user, Undefined, 200, UserAggregate(user))

\* GET /sessions/:sessionId/metrics
GetSessionMetricsOfSession(user, sessionId) ==
    IF sessionId.kind = "uuid" /\ SessionAt(sessionId.n).exists
    THEN Reply("sessions/metrics", user, sessionId, 200,
               SessionMetrics(SessionAt(sessionId.n), now))
    ELSE Reply("sessions/metrics", user, sessionId, 404, <<>>)

NextRead ==
    \/ \E user \in Students, sessionId \in ReadRefs : GetSessionMetrics(user, sessionId)
    \/ \E user \in Students, sessionId \in ReadRefs : GetSummary(user, sessionId)
    \/ \E user \in Students, sessionId \in ReadRefs : GetRecent(user, sessionId)
    \/ \E user \in Students, sessionId \in ReadRefs : GetTrend(user, sessionId, Undefined)
    \/ \E user \in Students, sessionId \in ReadRefs : GetAnomalies(user, sessionId)
    \/ \E user \in Students, sessionId \in ReadRefs : GetAlerts(user, sessionId)
    \/ \E user \in Students, sessionId \in ReadRefs :
           GetEngagementTimeline(user, sessionId)
    \/ \E user \in Students, sessionId \in ReadRefs : GetHealth(user, sessionId)
    \/ \E user \in Students, sessionId \in ReadRefs : GetDistractions(user, sessionId)
    \/ \E user \in Students, sessionId \in ReadRefs : GetComparison(user, sessionId)
    \/ \E user \in Students, sessionId \in ReadRefs, format \in ExportFormats :
           ExportMetrics(user, sessionId, format)
    \/ \E user \in Students : GetUserAggregate(user)
    \/ \E user \in Students, sessionId \in ReadRefs :
           GetSessionMetricsOfSession(user, sessionId)

SpecRead == InitRead /\ [][NextRead]_vars

\* ---------------------------------------- the analytics routes' store
\* Sessions of an hour that ended an hour ago, a three-hour session of another
\* student, a session of five days ago, and a session still active.
HourSession == StoredSession("u1", StreakNow - 2 * HourMs, StreakNow - HourMs)
OtherStudentSession ==
    StoredSession("u2", StreakNow - 5 * HourMs, StreakNow - 2 * HourMs)
OlderSession ==
    StoredSession("u1", StreakNow - 5 * DayMs, StreakNow - 5 * DayMs + HourMs)
ActiveSession == StoredSession("u1", StreakNow - HourMs \div 2, NoDate)
Copies(n, doc) == [i \in 1..n |-> doc]
AnalyticsSessions ==
    {Copies(n, HourSession) \o Copies(o, OtherStudentSession)
        \o Copies(f, OlderSession) \o Copies(a, ActiveSession) :
        n \in 0..MaxCompleted, o \in 0..1, f \in 0..1, a \in 0..1}
AnalyticsSamples ==
    {MetricDoc(HexRef(1), "u1", StreakNow - HourMs, v[1], v[2], v[3], DefaultHealth) :
        v \in {<<TRUE, 100, DefaultDistraction>>, <<TRUE, 58, DefaultDistraction>>,
               <<FALSE, 40, PhoneDistraction>>}}
HighlightDoc(user, created_at) == [user_id |-> user, created_at |-> created_at]

InitAnalytics ==
    /\ sessions \in AnalyticsSessions
    /\ metrics \in SeqsUpTo(AnalyticsSamples, MaxScoreSamples)
    /\ highlights \in {Copies(n, HighlightDoc("u1", StreakNow - HourMs)) :
                          n \in 0..MaxHighlights}
    /\ strictQuery \in BOOLEAN
    /\ now = StreakNow
    /\ resp = <<>>
    /\ req = IdleReq
    /\ finalMetrics = Undefined /\ anomalies = Undefined
    /\ allSessions = <<>> /\ streak = Undefined
    /\ blinkRate = 0 /\ compliance = Undefined
    /\ rooms = <<>> /\ refreshTokens = <<>>

\* ?period= of the query: absent, or a string
Periods == {Undefined, Some(Digits(0)), Some(Digits(1)), Some(Digits(3)),
            Some(NotDigits)}
\* What Annotation.countDocuments returns: models/Annotation.js is not among
\* the sources, so the count is an input of the request.
AnnotationCounts == {0, 9, 20}

\* GET /analytics/productivity-score
GetProductivityScore(user, period, annotations) ==
    LET days == IF period = Undefined THEN Digits(7) ELSE period[1]
        cutoffDate == CutoffDate(now, days.n)
        found == FindSessionsSince(sessions, cutoffDate)
        notes == CountHighlights(user, cutoffDate) + annotations
        request == <<period, annotations>>
    IN  IF days.isNumber /\ days.n <= 0
        THEN Reply("productivity-score", user, request, 400, <<>>)
        ELSE IF ~days.isNumber
        \* the cutoff is an Invalid Date, which the filter of Session.find rejects
        THEN Reply("productivity-score", user, request, 500, <<>>)
        ELSE Reply("productivity-score", user, request, 200,
                   ProductivityScore(SubScores(days.n, found,
                       EngagementData(user, cutoffDate), notes)))

NextProductivity ==
    \E user \in Students, period \in Periods, annotations \in AnnotationCounts :
        GetProductivityScore(user, period, annotations)

SpecProductivity == InitAnalytics /\ [][NextProductivity]_vars

\* --------------------------------------------- the dashboard, one request
\* No query, a period of 3 or 7 days, a range lying a week back, and a
\* startDate without endDate.
DateQueries ==
    {DateQueryOf(Undefined, Undefined, Undefined),
     DateQueryOf(Some(Digits(3)), Undefined, Undefined),
     DateQueryOf(Some(Digits(7)), Undefined, Undefined),
     DateQueryOf(Undefined, Some(StartOfDay(StreakNow) - 10 * DayMs),
                 Some(StartOfDay(StreakNow) - 8 * DayMs)),
     DateQueryOf(Undefined, Some(StartOfDay(StreakNow) - DayMs), Undefined)}

\* GET /analytics/analytics
GetAnalyticsDashboard(user, query) ==
    Reply("analytics", user, query, 200, DashboardOf(user, query, now))

NextDashboard ==
    \E user \in Students, query \in DateQueries : GetAnalyticsDashboard(user, query)

SpecDashboard == InitAnalytics /\ [][NextDashboard]_vars

\* ------------------------------- interactions and samples, one request
\* An interaction the store holds from the start, with the _id Mongoose gave
\* it. The requests of the model name these ids only: IdOf is 0 for an
\* interaction pushed later, an id no request carries.
StoredInteraction(id) ==
    [type |-> "highlight", data |-> OtherData, timestamp |-> TickMs, _id |-> id]
IdOf(i) == IF "_id" \in DOMAIN i THEN i._id ELSE 0
InteractionIds == 1..3

\* Session 1 is u1's and has ended; session 2 is u2's and is active.
InitInteractions ==
    /\ sessions = [s \in SessionIds |->
                     IF s = 1
                     THEN Ended([NewSession("u1", 0) EXCEPT
                                    !.interactions = <<StoredInteraction(1)>>], TickMs)
                     ELSE IF s = 2
                     THEN [NewSession("u2", 0) EXCEPT
                              !.interactions = <<StoredInteraction(2)>>]
                     ELSE NoSession]
    /\ metrics = <<>>
    /\ resp = <<>>
    /\ strictQuery \in BOOLEAN
    /\ now = 2 * TickMs
    /\ req = IdleReq
    /\ finalMetrics = Undefined /\ anomalies = Undefined
    /\ allSessions = <<>> /\ streak = Undefined
    /\ blinkRate = 0 /\ compliance = Undefined
    /\ highlights = <<>> /\ rooms = <<>> /\ refreshTokens = <<>>

\* POST /interactions/:sessionId, from the request to the response
PostInteraction(user, sessionId, item) ==
    /\ Len(resp) < MaxRequests
    /\ LET session == SessionAt(sessionId)
           Answer(status, saved) ==
               resp' = Append(resp, Response("POST /interactions/:sessionId",
                                  user, <<sessionId, item>>, status, saved))
       IN  IF item[1] \notin validTypes
           THEN Answer(400, <<>>) /\ UNCHANGED sessions
           ELSE IF ~session.exists THEN Answer(404, <<>>) /\ UNCHANGED sessions
           ELSE IF session.student_id # user
           THEN Answer(403, <<>>) /\ UNCHANGED sessions
           ELSE /\ sessions' = [sessions EXCEPT ![sessionId].interactions =
                                   Append(@, Interaction(item[1], item[2], now))]
                /\ Answer(200, <<Interaction(item[1], item[2], now)>>)
    /\ UNCHANGED <<req, now, finalMetrics, metrics, anomalies, allSessions,
                   streak, blinkRate, compliance, strictQuery,
                   highlights, rooms, refreshTokens>>

\* Session.findOne({ 'interactions._id': interactionId, student_id })
FindSessionOfInteraction(interactionId, user) ==
    LET found == {s \in SessionIds :
                     /\ sessions[s].exists
                     /\ sessions[s].student_id = user
                     /\ \E k \in 1..Len(sessions[s].interactions) :
                            IdOf(sessions[s].interactions[k]) = interactionId}
    IN  IF found = {} THEN Undefined ELSE Some(CHOOSE s \in found : TRUE)

\* DELETE /interactions/:interactionId, from the request to the response
DeleteInteraction(user, interactionId) ==
    /\ Len(resp) < MaxRequests
    /\ LET found == FindSessionOfInteraction(interactionId, user)
           Answer(status) ==
               resp' = Append(resp, Response("DELETE /interactions/:interactionId",
                                  user, interactionId, status, <<>>))
       IN  IF found = Undefined THEN Answer(404) /\ UNCHANGED sessions
           ELSE /\ sessions' = [sessions EXCEPT ![found[1]].interactions =
                       SelectSeq(@, LAMBDA i : IdOf(i) # interactionId)]
                /\ Answer(200)
    /\ UNCHANGED <<req, now, finalMetrics, metrics, anomalies, allSessions,
                   streak, blinkRate, compliance, strictQuery,
                   highlights, rooms, refreshTokens>>

NextInteractions ==
    \/ \E user \in Students, body \in MetricBodies : PostMetric(user, body)
    \/ \E user \in Students, bodies \in SeqsUpTo(MetricBodies, MaxBatch) :
           PostMetricsBatch(user, bodies)
    \/ \E user \in Students, sessionId \in 0..MaxSessions,
          item \in PostedItems \cup {UnknownItem} :
           PostInteraction(user, sessionId, item)
    \/ \E user \in Students, sessionId \in 0..MaxSessions,
          items \in SeqsUpTo(PostedItems \cup {UnknownItem}, MaxBatch) :
           \/ LogInteractionsBatch(user, sessionId, Some(items))
           \/ LogInteractionsBatch(user, sessionId, Undefined)
    \/ \E user \in Students, interactionId \in InteractionIds :
           DeleteInteraction(user, interactionId)

SpecInteractions == InitInteractions /\ [][NextInteractions]_vars

\* ------------------------------------------------- SpecRooms: room rosters
\* One stored room and concurrent requests of the three roster routes; a
\* request is in flight between the answer of its Room.find and its save().
RoomCodes == {"ABC123", "NOCODE"}
Teachers == {"t1", "t2"}

InitRooms ==
    /\ \E max \in 1..MaxRoomSize, first \in {<<>>, <<"u1">>} :
           rooms = <<RoomDoc("ABC123", "t1", first, max)>>
    /\ req = IdleReq
    /\ resp = <<>>
    /\ sessions = IdleSessions /\ metrics = <<>>
    /\ strictQuery = TRUE /\ highlights = <<>> /\ refreshTokens = <<>>
    /\ now = 0
    /\ finalMetrics = Undefined /\ anomalies = Undefined
    /\ allSessions = <<>> /\ streak = Undefined
    /\ blinkRate = 0 /\ compliance = Undefined

RoomMayStart(c) ==
    /\ req[c].pc = "idle"
    /\ Len(resp) + Cardinality(InFlight) < MaxRoomRequests

\* Room.findOne({ code, is_active: true }) / Room.findById(id): 0 for null
FindRoomByCode(code) ==
    IF \E r \in 1..Len(rooms) : rooms[r].code = code /\ rooms[r].is_active
    THEN CHOOSE r \in 1..Len(rooms) : rooms[r].code = code /\ rooms[r].is_active
    ELSE 0
FindRoomById(id) == IF id \in 1..Len(rooms) THEN id ELSE 0

RoomReply(route, user, request, status, room) ==
    Response(route, user, request, status, room.allowed_students)
NoRoom == [allowed_students |-> <<>>]

\* the in-memory document of a request and what its save() will do
RoomPending(pc, route, user, id, request, doc, studentId, modified) ==
    [pc |-> pc, route |-> route, user |-> user, sid |-> id,
     request |-> request, loaded |-> doc, items |-> studentId,
     modified |-> modified]

\* the part of join and add-student from the loaded room to save()
CheckAndAdd(c, route, user, id, request, studentId) ==
    LET room == rooms[id]
        Refuse(status) ==
            /\ resp' = Append(resp, RoomReply(route, user, request, status, NoRoom))
            /\ UNCHANGED req
    IN  IF isStudentAllowed(room, studentId) THEN Refuse(400)
        ELSE IF addStudentOutcome(room, studentId) # "ok" THEN Refuse(500)
        ELSE /\ req' = [req EXCEPT ![c] =
                          RoomPending("push_save", route, user, id, request,
                                      addStudent(room, studentId), studentId,
                                      TRUE)]
             /\ UNCHANGED resp

\* POST /rooms/join up to room.save()
JoinFind(c, user, code) ==
    /\ RoomMayStart(c)
    /\ LET id == FindRoomByCode(code)
       IN  IF id = 0
           THEN /\ resp' = Append(resp, RoomReply("POST /rooms/join", user, code,
                                                  404, NoRoom))
                /\ UNCHANGED req
           ELSE CheckAndAdd(c, "POST /rooms/join", user, id, code, user)
    /\ UNCHANGED <<sessions, now, finalMetrics, metrics, anomalies, allSessions,
                   streak, blinkRate, compliance, strictQuery,
                   highlights, rooms, refreshTokens>>

\* POST /rooms/:id/add-student up to room.save(); student is the answer of
\* User.findOne, which reads no room
AddStudentFind(c, user, id, student) ==
    /\ RoomMayStart(c)
    /\ LET found == FindRoomById(id)
           route == "POST /rooms/:id/add-student"
           Refuse(status) ==
               /\ resp' = Append(resp, RoomReply(route, user, <<id, student>>,
                                                 status, NoRoom))
               /\ UNCHANGED req
       IN  IF found = 0 THEN Refuse(404)
           ELSE IF rooms[found].teacher_id # user THEN Refuse(403)
           ELSE IF student = Undefined THEN Refuse(404)
           ELSE CheckAndAdd(c, route, user, found, <<id, student>>, student[1])
    /\ UNCHANGED <<sessions, now, finalMetrics, metrics, anomalies, allSessions,
                   streak, blinkRate, compliance, strictQuery,
                   highlights, rooms, refreshTokens>>

\* room.save() after addStudent, and the answer
PushSave(c) ==
    /\ req[c].pc = "push_save"
    /\ IF RoomPreSaveOk(req[c].loaded)
       THEN /\ rooms' = [rooms EXCEPT ![req[c].sid] = SavePushed(@, req[c].items)]
            /\ resp' = Append(resp, RoomReply(req[c].route, req[c].user,
                                              req[c].request, 200, req[c].loaded))
       ELSE /\ resp' = Append(resp, RoomReply(req[c].route, req[c].user,
                                              req[c].request, 500, NoRoom))
            /\ UNCHANGED rooms
    /\ req' = [req EXCEPT ![c] = IdleRequest]
    /\ UNCHANGED <<sessions, now, finalMetrics, metrics, anomalies, allSessions,
                   streak, blinkRate, compliance, strictQuery,
                   highlights, refreshTokens>>

\* POST /rooms/:id/remove-student up to room.save()
RemoveStudentFind(c, user, id, studentId) ==
    /\ RoomMayStart(c)
    /\ LET found == FindRoomById(id)
           route == "POST /rooms/:id/remove-student"
           Refuse(status) ==
               /\ resp' = Append(resp, RoomReply(route, user, <<id, studentId>>,
                                                 status, NoRoom))
               /\ UNCHANGED req
       IN  IF found = 0 THEN Refuse(404)
           ELSE IF rooms[found].teacher_id # user THEN Refuse(403)
           ELSE /\ req' = [req EXCEPT ![c] =
                             RoomPending("assign_save", route, user, found,
                                         <<id, studentId>>,
                                         removeStudent(rooms[found], studentId),
                                         studentId,
                                         isStudentAllowed(rooms[found], studentId))]
                /\ UNCHANGED resp
    /\ UNCHANGED <<sessions, now, finalMetrics, metrics, anomalies, allSessions,
                   streak, blinkRate, compliance, strictQuery,
                   highlights, rooms, refreshTokens>>

\* room.save() after removeStudent, and the answer: nothing is sent when
\* the assigned array equals the loaded one; a concurrent save that moved
\* __v makes this one fail
AssignSave(c) ==
    /\ req[c].pc = "assign_save"
    /\ LET doc == req[c].loaded
           stored == rooms[req[c].sid]
           Answer(status, room) ==
               resp' = Append(resp, RoomReply(req[c].route, req[c].user,
                                              req[c].request, status, room))
       IN  IF ~RoomPreSaveOk(doc)
           THEN Answer(500, NoRoom) /\ UNCHANGED rooms
           ELSE IF ~req[c].modified
           THEN Answer(200, doc) /\ UNCHANGED rooms
           ELSE IF ~SaveAssignedMatches(stored, doc)
           THEN Answer(500, NoRoom) /\ UNCHANGED rooms
           ELSE /\ rooms' = [rooms EXCEPT ![req[c].sid] = SaveAssigned(@, doc)]
                /\ Answer(200, doc)
    /\ req' = [req EXCEPT ![c] = IdleRequest]
    /\ UNCHANGED <<sessions, now, finalMetrics, metrics, anomalies, allSessions,
                   streak, blinkRate, compliance, strictQuery,
                   highlights, refreshTokens>>

NextRooms ==
    \/ \E c \in Clients, user \in Students, code \in RoomCodes :
           JoinFind(c, user, code)
    \/ \E c \in Clients, user \in Teachers, id \in 1..2,
          student \in {Undefined} \cup {Some(s) : s \in Students} :
           AddStudentFind(c, user, id, student)
    \/ \E c \in Clients : PushSave(c)
    \/ \E c \in Clients, user \in Teachers, id \in 1..2, studentId \in Students :
           RemoveStudentFind(c, user, id, studentId)
    \/ \E c \in Clients : AssignSave(c)

SpecRooms == InitRooms /\ [][NextRooms]_vars

\* ----------------------------------------------- SpecAuth: refresh tokens
\* Accounts u1 and u2 exist; the account "gone" was deleted while a token of
\* it stayed stored.
Accounts == {"u1", "u2"}
\* the seconds of a week at which a login may happen
Seconds == {0, 1}

InitAuth ==
    /\ refreshTokens = <<RefreshTokenDoc("gone", Jwt("gone", <<0, 0>>, 1), 1)>>
    /\ now = 0
    /\ resp = <<>>
    /\ req = IdleReq
    /\ sessions = IdleSessions /\ metrics = <<>>
    /\ strictQuery = TRUE /\ highlights = <<>> /\ rooms = <<>>
    /\ finalMetrics = Undefined /\ anomalies = Undefined
    /\ allSessions = <<>> /\ streak = Undefined
    /\ blinkRate = 0 /\ compliance = Undefined

AuthMayStart == Len(resp) < MaxAuthRequests

\* every refresh token a client may hold: the ones issued or stored so far
KnownTokens ==
    {refreshTokens[k].token : k \in 1..Len(refreshTokens)}
        \cup {resp[k].data[1] : k \in {i \in 1..Len(resp) :
                  resp[i].route = "POST /auth/login" /\ resp[i].status = 200}}
        \cup {ForgedJwt}

\* POST /auth/login
Login(user, passwordMatches, second, expiry) ==
    /\ AuthMayStart
    /\ LET refreshToken == Jwt(user, <<now, second>>, now + expiry)
           Answer(status, data) ==
               resp' = Append(resp, Response("POST /auth/login", user,
                                             passwordMatches, status, data))
       IN  IF user \notin Accounts \/ ~passwordMatches
           THEN Answer(401, Undefined) /\ UNCHANGED refreshTokens
           ELSE IF \E k \in 1..Len(refreshTokens) :
                       refreshTokens[k].token = refreshToken
           THEN Answer(500, Undefined) /\ UNCHANGED refreshTokens
           ELSE /\ refreshTokens' = Append(refreshTokens,
                       RefreshTokenDoc(user, refreshToken, now + RecordLifetime))
                /\ Answer(200, Some(refreshToken))
    /\ UNCHANGED <<sessions, req, now, finalMetrics, metrics, anomalies,
                   allSessions, streak, blinkRate, compliance, strictQuery,
                   highlights, rooms>>

\* POST /auth/refresh
Refresh(body) ==
    /\ AuthMayStart
    /\ LET status == RefreshStatus(refreshTokens, Accounts, body, now)
       IN  resp' = Append(resp, Response("POST /auth/refresh", "", body, status,
                              IF status = 200 THEN Some(body[1].userId)
                              ELSE Undefined))
    /\ UNCHANGED <<sessions, req, now, finalMetrics, metrics, anomalies,
                   allSessions, streak, blinkRate, compliance, strictQuery,
                   highlights, rooms, refreshTokens>>

\* POST /auth/logout
Logout(user, body) ==
    /\ AuthMayStart
    /\ refreshTokens' = IF body # Undefined
                        THEN DeleteToken(refreshTokens, body[1])
                        ELSE refreshTokens
    /\ resp' = Append(resp, Response("POST /auth/logout", user, body, 200, Undefined))
    /\ UNCHANGED <<sessions, req, now, finalMetrics, metrics, anomalies,
                   allSessions, streak, blinkRate, compliance, strictQuery,
                   highlights, rooms>>

\* POST /auth/change-password
ChangePassword(user, valid, isMatch) ==
    /\ AuthMayStart
    /\ LET Answer(status) ==
               resp' = Append(resp, Response("POST /auth/change-password", user,
                                             <<valid, isMatch>>, status, Undefined))
       IN  IF ~valid THEN Answer(400) /\ UNCHANGED refreshTokens
           ELSE IF ~isMatch THEN Answer(401) /\ UNCHANGED refreshTokens
           ELSE /\ refreshTokens' = DeleteTokensOf(refreshTokens, user)
                /\ Answer(200)
    /\ UNCHANGED <<sessions, req, now, finalMetrics, metrics, anomalies,
                   allSessions, streak, blinkRate, compliance, strictQuery,
                   highlights, rooms>>

\* tokenDoc.revoke(ip, replacedByToken) followed by its save()
Revoke(k) ==
    /\ k \in 1..Len(refreshTokens)
    /\ ~refreshTokens[k].revoked
    /\ refreshTokens' = [refreshTokens EXCEPT ![k] = revoke(@)]
    /\ UNCHANGED <<sessions, req, now, finalMetrics, metrics, anomalies,
                   allSessions, streak, blinkRate, compliance, resp, strictQuery,
                   highlights, rooms>>

\* RefreshToken.revokeAllForUser(userId)
RevokeAllForUser(userId) ==
    /\ refreshTokens' = revokeAllForUser(refreshTokens, userId)
    /\ refreshTokens' # refreshTokens
    /\ UNCHANGED <<sessions, req, now, finalMetrics, metrics, anomalies,
                   allSessions, streak, blinkRate, compliance, resp, strictQuery,
                   highlights, rooms>>

\* the database's TTL monitor removes the records past expires_at, at a
\* moment of its own
TtlMonitor ==
    /\ refreshTokens' = TtlExpired(refreshTokens, now)
    /\ refreshTokens' # refreshTokens
    /\ UNCHANGED <<sessions, req, now, finalMetrics, metrics, anomalies,
                   allSessions, streak, blinkRate, compliance, resp, strictQuery,
                   highlights, rooms>>

\* a week passes
AuthTick ==
    /\ now < MaxAuthWeeks
    /\ now' = now + 1
    /\ UNCHANGED <<sessions, req, finalMetrics, metrics, anomalies,
                   allSessions, streak, blinkRate, compliance, resp, strictQuery,
                   highlights, rooms, refreshTokens>>

NextAuth ==
    \/ \E user \in Accounts, passwordMatches \in BOOLEAN, second \in Seconds,
          expiry \in RefreshExpiries :
           Login(user, passwordMatches, second, expiry)
    \/ \E body \in {Undefined} \cup {Some(t) : t \in KnownTokens} : Refresh(body)
    \/ \E user \in Accounts, body \in {Undefined} \cup {Some(t) : t \in KnownTokens} :
           Logout(user, body)
    \/ \E user \in Accounts, valid \in BOOLEAN, isMatch \in BOOLEAN :
           ChangePassword(user, valid, isMatch)
    \/ \E k \in 1..Len(refreshTokens) : Revoke(k)
    \/ \E userId \in Accounts : RevokeAllForUser(userId)
    \/ TtlMonitor
    \/ AuthTick

SpecAuth == InitAuth /\ [][NextAuth]_vars

\* -------------------------------------------- SpecDispatch: who answers
Mounts == {"/api/rooms", "/api/interactions"}
Methods == {"GET", "POST", "PUT", "DELETE"}
Segments ==
    {"stats", "join", "share-report", "batch", "analytics", "overall",
     "add-student", "remove-student", "pdf", "upload", "students", "metrics",
     "64f0c0ffee"}

RECURSIVE PathsOfLen(_)
PathsOfLen(n) ==
    IF n = 0 THEN {<<>>}
    ELSE {Append(p, s) : p \in PathsOfLen(n - 1), s \in Segments}
Paths == UNION {PathsOfLen(n) : n \in 0..MaxPathLen}

InitDispatch ==
    /\ resp = <<>>
    /\ now = 0 /\ req = IdleReq
    /\ sessions = IdleSessions /\ metrics = <<>>
    /\ strictQuery = TRUE /\ highlights = <<>> /\ rooms = <<>>
    /\ refreshTokens = <<>>
    /\ finalMetrics = Undefined /\ anomalies = Undefined
    /\ allSessions = <<>> /\ streak = Undefined
    /\ blinkRate = 0 /\ compliance = Undefined

\* a request arrives and one handler answers it
Serve(mount, method, path) ==
    /\ resp' = <<[request |-> <<mount, method, path>>,
                  route |-> ServedBy(mount, method, path)]>>
    /\ UNCHANGED <<sessions, req, now, finalMetrics, metrics, anomalies,
                   allSessions, streak, blinkRate, compliance, strictQuery,
                   highlights, rooms, refreshTokens>>

\* the router keeps nothing from one request to the next, so a behaviour
\* serves one request
NextDispatch ==
    /\ resp = <<>>
    /\ \E mount \in Mounts, method \in Methods, path \in Paths :
           Serve(mount, method, path)

SpecDispatch == InitDispatch /\ [][NextDispatch]_vars

\* ==================================================================== claims
HasWebcam(session) == \E k \in 1..Len(session.interactions) :
                          session.interactions[k].type = "webcam"
IsEnded(s) == sessions[s].exists /\ ~sessions[s].is_active

\* C1: every ended session that recorded webcam samples carries a non-empty
\* metrics snapshot, the result of calculateFinalMetrics written at its end.
C1_EndedSessionHasSnapshot ==
    \A s \in SessionIds :
        (IsEnded(s) /\ HasWebcam(sessions[s])) => sessions[s].metrics # EmptyObject

\* C2: once a session is ended, no later step writes its end_time or its
\* duration_seconds again: the transition happens once.
C2_EndedOnce ==
    [][\A s \in SessionIds :
          IsEnded(s) => /\ sessions'[s].end_time = sessions[s].end_time
                        /\ sessions'[s].duration_seconds = sessions[s].duration_seconds]_vars

\* the hasPhone values of the webcam samples of session 1, in order
PhoneSeq ==
    LET w == SelectSeq(sessions[1].interactions, LAMBDA i : i.type = "webcam")
    IN  [k \in 1..Len(w) |-> w[k].data.hasPhone = <<TRUE>>]
RisingEdges(ph) ==
    Cardinality({k \in 1..Len(ph) : ph[k] /\ (k = 1 \/ ~ph[k - 1])})
FinalCalled == finalMetrics # Undefined /\ finalMetrics[1] = 1

\* C3: distractionCount is the number of rising edges of hasPhone in the
\* sample sequence; for [false,true,true,false,true] it is 2.
C3_DistractionCountIsRisingEdges ==
    FinalCalled =>
        /\ finalMetrics[2].distractionCount = RisingEdges(PhoneSeq)
        /\ PhoneSeq = <<FALSE, TRUE, TRUE, FALSE, TRUE>>
              => finalMetrics[2].distractionCount = 2

C3_Witness ==
    /\ FinalCalled
    /\ PhoneSeq = <<FALSE, TRUE, TRUE, FALSE, TRUE>>
    /\ finalMetrics[2].distractionCount = 2

\* the anomalies of one type in the result of the last detectAnomalies call
AnomaliesOfType(t) == SelectSeq(anomalies[2], LAMBDA a : a.type = t)
\* the samples the call looked at
Looked == LET sid == anomalies[1]
          IN  SelectSeq(metrics, LAMBDA m : m.session_id = sid)
Absent(ms, k) == k >= 1 /\ k <= Len(ms) /\ ~ms[k].presence.detected
\* the indices of the fifth sample of each maximal run of at least 5 absent samples
FifthOfRuns(ms) ==
    {k \in 1..Len(ms) : /\ \A j \in (k - 4)..k : Absent(ms, j)
                         /\ ~Absent(ms, k - 5)}

\* C4: one prolonged_absence anomaly of severity high per maximal run of at
\* least 5 absent samples, stamped with the run's 5th sample, and no other.
C4_OneAbsencePerRun ==
    anomalies # Undefined =>
        LET ms == Looked
            got == AnomaliesOfType("prolonged_absence")
            fifths == FifthOfRuns(ms)
        IN  /\ Len(got) = Cardinality(fifths)
            /\ {got[k].timestamp : k \in 1..Len(got)}
                  = {ms[k].timestamp : k \in fifths}
            /\ \A k \in 1..Len(got) : got[k].severity = "high"

\* a run of 6 absent samples, one present, a run of 5: two anomalies
C4_Witness ==
    /\ anomalies # Undefined
    /\ Len(Looked) = 12
    /\ \A k \in 1..12 : Looked[k].presence.detected = (k = 7)
    /\ Len(AnomaliesOfType("prolonged_absence")) = 2

DropAt(ms, k) == ms[k - 1].engagement_score - ms[k].engagement_score
ScoresLooked == [k \in 1..Len(Looked) |-> Looked[k].engagement_score]

\* C5: an engagement_drop anomaly at curr.timestamp for exactly the adjacent
\* pairs with a drop above 30, high iff the drop is above 50, medium otherwise.
C5_EngagementDrops ==
    anomalies # Undefined =>
        LET ms == Looked
            got == AnomaliesOfType("engagement_drop")
            pairs == {k \in 2..Len(ms) : DropAt(ms, k) > 30}
        IN  /\ Len(got) = Cardinality(pairs)
            /\ \A k \in pairs : \E g \in 1..Len(got) :
                  /\ got[g].timestamp = ms[k].timestamp
                  /\ got[g].severity = IF DropAt(ms, k) > 50 THEN "high" ELSE "medium"
            /\ ScoresLooked = <<80, 40>>
                  => Len(got) = 1 /\ got[1].severity = "medium"
            /\ ScoresLooked = <<90, 20>>
                  => Len(got) = 1 /\ got[1].severity = "high"
            /\ ScoresLooked = <<80, 50>> => Len(got) = 0

\* a drop of exactly 50 is reported as medium
C5_Witness ==
    /\ anomalies # Undefined
    /\ ScoresLooked = <<90, 40>>
    /\ Len(AnomaliesOfType("engagement_drop")) = 1
    /\ AnomaliesOfType("engagement_drop")[1].severity = "medium"

\* the days, counted back from today, that have a session found
DaysBack == {(StartOfDay(now) - StartOfDay(allSessions[k])) \div DayMs :
                k \in 1..Len(allSessions)}
\* the number of consecutive days with a session, from today backward
RunFromToday == CHOOSE n \in 0..(MaxDaysBack + 1) :
                    /\ \A d \in 0..(n - 1) : d \in DaysBack
                    /\ n \notin DaysBack

\* C6: with a session today, the streak is the number of consecutive days with
\* a session walking backward from today, stopping at the first missing day:
\* {today, yesterday, day-before} gives 3, {today, day-before} gives 1.
C6_StreakStopsAtFirstGap ==
    (streak # Undefined /\ 0 \in DaysBack) => streak[1] = RunFromToday

\* C7: with no webcam interaction the snapshot is all zero, and durationSeconds
\* is the stored duration_seconds.
C7_NoWebcamAllZero ==
    (FinalCalled /\ ~HasWebcam(sessions[1])) =>
        /\ finalMetrics[2].engagementScore = 0
        /\ finalMetrics[2].attentionRate = 0
        /\ finalMetrics[2].avgBlinkRate = 0
        /\ finalMetrics[2].distractionCount = 0
        /\ finalMetrics[2].totalMetricsRecorded = 0
        /\ finalMetrics[2].durationSeconds = sessions[1].duration_seconds

C7_Witness ==
    /\ FinalCalled
    /\ Len(sessions[1].interactions) = 2
    /\ ~HasWebcam(sessions[1])
    /\ sessions[1].duration_seconds = 90
    /\ finalMetrics[2].durationSeconds = 90
    /\ finalMetrics[2].totalMetricsRecorded = 0

Webcams == SelectSeq(sessions[1].interactions, LAMBDA i : i.type = "webcam")
NumberOr0(x) == IF Len(x) = 0 THEN 0 ELSE x[1]
RECURSIVE SumOf(_, _)
SumOf(f, k) == IF k = 0 THEN 0 ELSE f[k] + SumOf(f, k - 1)
PostureSum == SumOf([k \in 1..Len(Webcams) |-> NumberOr0(Webcams[k].data.postureScore)],
                    Len(Webcams))
BlinkSum == SumOf([k \in 1..Len(Webcams) |-> NumberOr0(Webcams[k].data.blinkRate)],
                  Len(Webcams))
Focused == Cardinality({k \in 1..Len(Webcams) : Webcams[k].data.lookingAtScreen = <<TRUE>>})
\* the nearest integer of num / den, halves up
Nearest(num, den) == (2 * num + den) \div (2 * den)

ExpectedCompliance(b) ==
    IF 15 <= b /\ b <= 25 THEN 100
    ELSE LET d == IF b < 15 THEN 15 - b ELSE b - 25
             capped == IF d > 50 THEN 50 ELSE d
             v == 100 - 2 * capped
         IN  IF v < 0 THEN 0 ELSE v

\* C9: compliance is 100 within [15,25] and otherwise decays linearly to 0 at
\* a distance of 50 from the nearer bound; 0 gives 70 and 100 gives 0.
C9_BlinkCompliance ==
    compliance # Undefined =>
        /\ compliance[1] = ExpectedCompliance(blinkRate)
        /\ compliance[1] >= 0 /\ compliance[1] <= 100
        /\ blinkRate \in {15, 20, 25} => compliance[1] = 100
        /\ blinkRate = 0 => compliance[1] = 70
        /\ blinkRate = 100 => compliance[1] = 0

C9_Witness == blinkRate = 30 /\ compliance = <<90>>

TrendCall == resp # <<>> /\ resp[1].route = "Metric.getEngagementTrend"
TrendMinutes == resp[1].data[1]
TrendResult == resp[1].data[2]
TrendSamples ==
    LET sid == resp[1].request
    IN  SelectSeq(metrics, LAMBDA m : m.session_id = sid)
\* the start of the interval a timestamp lies in
FloorKey(ts) == (ts \div (TrendMinutes * 60000)) * (TrendMinutes * 60000)
WithKey(key) == SelectSeq(TrendSamples, LAMBDA m : FloorKey(m.timestamp) = key)
ScoreTotal(ms) == SumOf([k \in 1..Len(ms) |-> ms[k].engagement_score], Len(ms))

\* C11: getEngagementTrend puts every sample of the session in exactly one
\* bucket, the one whose key is timestamp - (timestamp mod interval * 60000):
\* a bucket averages exactly the samples of its key, the buckets come in
\* ascending key order, and their datapoints add up to the number of samples.
C11_TrendBuckets ==
    TrendCall =>
        /\ \A k \in 1..Len(TrendSamples) :
               Cardinality({b \in 1..Len(TrendResult) :
                   TrendResult[b]._id = FloorKey(TrendSamples[k].timestamp)}) = 1
        /\ \A b \in 1..Len(TrendResult) :
               /\ TrendResult[b].datapoints = Len(WithKey(TrendResult[b]._id))
               /\ TrendResult[b].datapoints >= 1
               /\ TrendResult[b].avg_engagement =
                      <<ScoreTotal(WithKey(TrendResult[b]._id)),
                        Len(WithKey(TrendResult[b]._id))>>
        /\ \A a, b \in 1..Len(TrendResult) :
               a < b => TrendResult[a]._id < TrendResult[b]._id
        /\ SumOf([b \in 1..Len(TrendResult) |-> TrendResult[b].datapoints],
                 Len(TrendResult)) = Len(TrendSamples)

\* two samples share a bucket and a third lies in a later one
C11_Witness ==
    /\ TrendCall
    /\ Len(TrendResult) >= 2
    /\ TrendResult[1].datapoints >= 2

\* ---------------------------------------------------------------- C12
IngestRoutes == {"POST /metrics", "POST /metrics/batch"}
\* the samples of an ingestion request
SamplesOf(r) == IF r.route = "POST /metrics" THEN <<r.request>> ELSE r.request
\* the sample names a session, and that session is the user's
OwnsSessionOf(user, session_id) ==
    /\ session_id # Undefined
    /\ session_id[1].kind = "uuid"
    /\ SessionAt(session_id[1].n).exists
    /\ SessionAt(session_id[1].n).student_id = user

\* C12: ingestion stores no sample whose session_id is absent or names no
\* session of the requester, and a request made only of such samples is
\* answered with a client error; for POST /metrics and POST /metrics/batch.
C12_IngestionChecksOwner ==
    \A k \in 1..Len(resp) :
        resp[k].route \in IngestRoutes =>
            /\ \A d \in 1..Len(resp[k].data) :
                   OwnsSessionOf(resp[k].user, Some(resp[k].data[d].session_id))
            /\ (\A i \in 1..Len(SamplesOf(resp[k])) :
                   ~OwnsSessionOf(resp[k].user, SamplesOf(resp[k])[i].session_id))
               => resp[k].status \in 400..499

\* ---------------------------------------------------------------- C13
BatchRoutes == {"POST /metrics/batch", "POST /interactions/:sessionId/batch"}
\* the elements of a batch that the store takes
PassesValidation(body) ==
    /\ body.session_id # Undefined
    /\ body.session_id[1].kind = "hex"
    /\ (body.engagement_score = Undefined \/ body.engagement_score[1] \in 0..100)
TakenSamples(r) == SelectSeq(r.request, PassesValidation)
TakenItems(r) ==
    IF r.request[2] = Undefined THEN <<>>
    ELSE SelectSeq(r.request[2][1], LAMBDA i : i \in PostedItems)
Answered == Len(resp') = Len(resp) + 1
Answer == resp'[Len(resp')]
SameStore == metrics' = metrics /\ sessions' = sessions

RECURSIVE ByTimestamp(_)
\* a list in ascending order of timestamp
ByTimestamp(s) ==
    IF s = <<>> THEN <<>>
    ELSE LET k == CHOOSE i \in 1..Len(s) :
                      \A j \in 1..Len(s) : s[i].timestamp <= s[j].timestamp
         IN  <<s[k]>> \o ByTimestamp([i \in 1..(Len(s) - 1) |->
                                         IF i < k THEN s[i] ELSE s[i + 1]])
DistinctTimestamps(s) ==
    \A i, j \in 1..Len(s) : i # j => s[i].timestamp # s[j].timestamp
SamplesOfSession(sessionId) == SelectSeq(metrics, LAMBDA m : m.session_id = sessionId)
SummaryCalled == resp # <<>> /\ resp[1].route = "Metric.getSessionSummary"

\* C14: each reader returns what it returns for the samples in ascending
\* order of timestamp, whatever order they were stored in: detectAnomalies,
\* getSessionSummary (whose duration_minutes is never negative) and
\* calculateFinalMetrics.
C14_ReadersSortByTimestamp ==
    /\ (anomalies # Undefined /\ DistinctTimestamps(SamplesOfSession(anomalies[1]))) =>
          LET sorted == ByTimestamp(SamplesOfSession(anomalies[1]))
          IN  anomalies[2] =
                  EngagementDrops(sorted, 2) \o ProlongedAbsence(sorted, 1, 0)
    /\ (SummaryCalled /\ resp[1].data # Undefined
          /\ DistinctTimestamps(SamplesOfSession(resp[1].request))) =>
          /\ resp[1].data[1] =
                 SummaryOf(ByTimestamp(SamplesOfSession(resp[1].request)))
          /\ resp[1].data[1].duration_minutes[1] >= 0
    /\ (finalMetrics # Undefined /\ SessionAt(finalMetrics[1]).exists
          /\ DistinctTimestamps(SessionAt(finalMetrics[1]).interactions)) =>
          finalMetrics[2] =
              FinalMetricsOf([SessionAt(finalMetrics[1]) EXCEPT
                                 !.interactions = ByTimestamp(@)])

\* ---------------------------------------------------------------- C15
InteractionRoutes ==
    {"POST /interactions/:sessionId", "POST /interactions/:sessionId/batch"}
RECURSIVE AcceptedBy(_, _)
\* what the responses of the given routes say was stored, oldest first
AcceptedBy(routes, k) ==
    IF k = 0 THEN <<>>
    ELSE AcceptedBy(routes, k - 1) \o
         (IF resp[k].route \in routes /\ resp[k].status \in {200, 201}
          THEN resp[k].data ELSE <<>>)
Occurrences(s, x) == Cardinality({i \in 1..Len(s) : s[i] = x})
SameElements(s, t) ==
    /\ Len(s) = Len(t)
    /\ \A i \in 1..Len(s) : Occurrences(s, s[i]) = Occurrences(t, s[i])

\* C15: whatever the interleaving of the append requests on one session,
\* the store holds exactly the interactions and the samples the answered
\* requests were told are stored: no append overwrites or drops another.
C15_AppendsAreKept ==
    /\ SameElements(sessions[1].interactions,
                    AcceptedBy(InteractionRoutes, Len(resp)))
    /\ SameElements(metrics, AcceptedBy(IngestRoutes, Len(resp)))

\* one append has been saved and answered while another request, which
\* loaded the session before that, has still to save
C15_Witness ==
    /\ Len(AcceptedBy(InteractionRoutes, Len(resp))) >= 1
    /\ \E c \in Clients :
          /\ req[c].pc \in {"append_save", "batch_save"}
          /\ req[c].items # <<>>
          /\ Len(req[c].loaded) < Len(sessions[1].interactions)

\* ---------------------------------------------------------------- C16
StreakRoutes ==
    {"calculateStudyStreak", "calculateStreak",
     "GET /interactions/analytics/overall"}
\* the number of consecutive days with a session, from d days ago backward
RunFrom(d) == CHOOSE n \in 0..(MaxDaysBack + 2) :
                  /\ \A k \in 0..(n - 1) : (d + k) \in DaysBack
                  /\ (d + n) \notin DaysBack
StreakFromTodayOrYesterday ==
    IF 0 \in DaysBack THEN RunFrom(0) ELSE RunFrom(1)

\* C16: each of the three streak computations returns the number of
\* consecutive days with a session that ends today or, when there is no
\* session today, yesterday: the three agree on every history.
C16_StreaksAgree ==
    (resp # <<>> /\ resp[1].route \in StreakRoutes
        /\ \A d \in DaysBack : d >= 0) =>
        resp[1].data = StreakFromTodayOrYesterday

\* ---------------------------------------------------------------- C17
\* C17: every session that is not active has an end_time, not before its
\* start_time, and duration_seconds = floor((end_time - start_time) / 1000),
\* whichever operation ended it.
C17_EndedSessionHasDuration ==
    \A s \in SessionIds :
        (sessions[s].exists /\ ~sessions[s].is_active) =>
            /\ sessions[s].end_time # NoDate
            /\ sessions[s].end_time >= sessions[s].start_time
            /\ sessions[s].duration_seconds =
                   (sessions[s].end_time - sessions[s].start_time) \div 1000

\* ---------------------------------------------------------------- C18
NeedsBreak(health) ==
    \/ health.fatigue_level > 75
    \/ health.eye_strain_risk = "critical"
    \/ health.time_since_break > 25

\* C18: every stored sample whose fatigue_level is above 75, whose
\* eye_strain_risk is critical or whose time_since_break is above 25 has
\* break_recommended = true, whichever route stored it.
C18_BreakRecommended ==
    \A i \in 1..Len(metrics) :
        NeedsBreak(metrics[i].health) => metrics[i].health.break_recommended

\* ---------------------------------------------------------------- C19
AggregationRoutes ==
    {"summary", "trend", "anomalies", "alerts", "distractions", "comparison",
     "aggregate/user"}
\* nothing is stored for the session, or for the user, the request is about
NoSamplesFor(r) ==
    IF r.route = "aggregate/user"
    THEN \A k \in 1..Len(metrics) : metrics[k].user_id # r.user
    ELSE \A k \in 1..Len(metrics) : metrics[k].session_id # r.request
\* a quotient of the payload has the denominator 0
HasUndefinedValue(r) ==
    /\ r.route = "distractions"
    /\ r.status = 200
    /\ \/ r.data.distraction_rate[2] = 0
       \/ r.data.avg_episode_duration[2] = 0
       \/ r.data.longest_episode[2] = 0

\* C19: a read-side aggregation asked about a session, or a user, that has no
\* samples answers 200 with an empty or zero-valued payload: never an error
\* status, never a 0/0 value.
C19_NoDataIsAnEmptySuccess ==
    \A i \in 1..Len(resp) :
        (resp[i].route \in AggregationRoutes /\ NoSamplesFor(resp[i])) =>
            /\ resp[i].status = 200
            /\ ~HasUndefinedValue(resp[i])

\* ---------------------------------------------------------------- C20
PerSessionRoutes ==
    {"list", "summary", "recent", "trend", "anomalies", "alerts",
     "engagement-timeline", "health", "distractions", "comparison", "export",
     "sessions/metrics"}
\* The session asked for is another user's: its Session document names another
\* student, or samples are stored under its id and none of them is the
\* requester's.
BelongsToAnother(r) ==
    IF r.request.kind = "uuid"
    THEN /\ SessionAt(r.request.n).exists
         /\ SessionAt(r.request.n).student_id # r.user
    ELSE /\ \E k \in 1..Len(metrics) : metrics[k].session_id = r.request
         /\ \A k \in 1..Len(metrics) :
                metrics[k].session_id = r.request => metrics[k].user_id # r.user

\* C20: a per-session read endpoint asked for a session of another user
\* answers 404 or 403 and carries no data of that session.
C20_OnlyTheOwnerReads ==
    \A i \in 1..Len(resp) :
        (resp[i].route \in PerSessionRoutes /\ BelongsToAnother(resp[i])) =>
            /\ resp[i].status \in {403, 404}
            /\ resp[i].data = <<>>

\* ---------------------------------------------------------------- C21
ScoreAnswered(r) == r.route = "productivity-score" /\ r.status = 200
DaysOf(r) == IF r.request[1] = Undefined THEN 7 ELSE r.request[1][1].n
\* the requester's sessions that started within the period and have ended
CompletedInPeriod(r) ==
    SelectSeq(sessions, LAMBDA s :
        /\ s.student_id = r.user
        /\ ~s.is_active
        /\ s.start_time >= now - DaysOf(r) * DayMs)

\* C21: components.session_consistency is min(100, 100 * completedSessions /
\* days), rounded: one completed session a day over the period scores 100.
C21_OneSessionADayScores100 ==
    \A i \in 1..Len(resp) :
        ScoreAnswered(resp[i]) =>
            resp[i].data.components.session_consistency =
                MathRound(Min(100 * Len(CompletedInPeriod(resp[i])),
                              100 * DaysOf(resp[i])),
                          DaysOf(resp[i]))

\* ---------------------------------------------------------------- C22
\* the sub-scores the handler computed for the request
ScoresOf(r) ==
    LET cutoffDate == CutoffDate(now, DaysOf(r))
    IN  SubScores(DaysOf(r), FindSessionsSince(sessions, cutoffDate),
                  EngagementData(r.user, cutoffDate),
                  CountHighlights(r.user, cutoffDate) + r.request[2])
InRange(x) == RatLeq(Whole(0), x) /\ RatLeq(x, Whole(100))
\* 0.15 a + 0.20 b + 0.25 c + 0.15 d + 0.15 e + 0.10 f
Weighted(s) ==
    LET Part(w, x) == Reduce(<<w * x[1], 100 * x[2]>>)
    IN  RatAdd(RatAdd(RatAdd(Part(15, s[1]), Part(20, s[2])),
                      RatAdd(Part(25, s[3]), Part(15, s[4]))),
               RatAdd(Part(15, s[5]), Part(10, s[6])))

\* C22: each of the six sub-scores lies in [0, 100], the overall score is
\* their sum under the weights 0.15, 0.20, 0.25, 0.15, 0.15, 0.10, and so it
\* lies in [0, 100] too.
C22_OverallScoreInRange ==
    \A i \in 1..Len(resp) :
        ScoreAnswered(resp[i]) =>
            /\ \A k \in 1..6 : InRange(ScoresOf(resp[i])[k])
            /\ InRange(Weighted(ScoresOf(resp[i])))
            /\ resp[i].data.overall_score = RatRound(Weighted(ScoresOf(resp[i])))
            /\ resp[i].data.overall_score \in 0..100

\* the session, time and activity sub-scores all reach their cap
C22_Witness ==
    /\ resp # <<>>
    /\ ScoreAnswered(resp[1])
    /\ resp[1].data.components.session_consistency = 100
    /\ resp[1].data.components.study_time = 100
    /\ resp[1].data.components.activity = 100
    /\ strictQuery
    /\ (resp[1].request[2] + Len(highlights)) * 5 > 100 * DaysOf(resp[1])

\* ---------------------------------------------------------------- C23
Threshold(score) ==
    IF score >= 90 THEN "A+"
    ELSE IF score >= 85 THEN "A"
    ELSE IF score >= 80 THEN "A-"
    ELSE IF score >= 70 THEN "B"
    ELSE IF score >= 60 THEN "C"
    ELSE "D"

\* C23: the grade of the response is the threshold mapping of the
\* overall_score of the same response.
C23_GradeMatchesScore ==
    \A i \in 1..Len(resp) :
        ScoreAnswered(resp[i]) =>
            resp[i].data.grade = Threshold(resp[i].data.overall_score)

\* ---------------------------------------------------------------- C24
\* the requester's sessions that started within the trailing seven days
StartedThisWeek(user) ==
    SelectSeq(sessions, LAMBDA s :
        s.student_id = user /\ s.start_time >= now - 7 * DayMs)
HoursOf(found) ==
    MathRound(SumOf([k \in 1..Len(found) |->
                        IF found[k].end_time = NoDate THEN 0
                        ELSE found[k].end_time - found[k].start_time],
                    Len(found)),
              3600000)

\* C24: thisWeek is the total duration, in hours, of the requester's sessions
\* that started within the last seven days, whatever period, startDate or
\* endDate the request carries.
C24_ThisWeekIgnoresThePeriod ==
    \A i \in 1..Len(resp) :
        resp[i].route = "analytics" =>
            resp[i].data.thisWeek = HoursOf(StartedThisWeek(resp[i].user))

\* ---------------------------------------------------------------- C25
ActiveSessionsOf(student) ==
    {s \in SessionIds : /\ sessions[s].exists
                        /\ sessions[s].is_active
                        /\ sessions[s].student_id = student}

\* C25: whatever the interleaving of POST /sessions and PATCH
\* /sessions/:sessionId/end, a student has at most one active session.
C25_OneActiveSessionPerStudent ==
    \A student \in Students : Cardinality(ActiveSessionsOf(student)) <= 1

\* ---------------------------------------------------------------- C26
\* the session had ended before the step
EndedBefore(s) == sessions[s].exists /\ ~sessions[s].is_active
\* every element of the sequence after the step was in it before
AddsNothing(before, after) ==
    \A k \in 1..Len(after) : \E j \in 1..Len(before) : after[k] = before[j]
SamplesFor(ms, s) == SelectSeq(ms, LAMBDA m : m.session_id = UuidRef(s))

\* C26: once a session has is_active = false, no request adds to its
\* interactions or to its samples.
C26_NothingRecordedAfterEnd ==
    [][\A s \in SessionIds :
          EndedBefore(s) =>
              /\ AddsNothing(sessions[s].interactions, sessions'[s].interactions)
              /\ AddsNothing(SamplesFor(metrics, s), SamplesFor(metrics', s))]_vars

\* ---------------------------------------------------------------- C27
InteractionWrites ==
    {"POST /interactions/:sessionId", "POST /interactions/:sessionId/batch",
     "DELETE /interactions/:interactionId"}
\* the request answered by the step
Sent == resp'[Len(resp')]
Replied == Len(resp') = Len(resp) + 1 /\ Sent.route \in InteractionWrites
\* the sessions the request is aimed at: the one it names, or the one that
\* holds the interaction it names
TargetsOf(r) ==
    IF r.route = "DELETE /interactions/:interactionId"
    THEN {s \in SessionIds :
             /\ sessions[s].exists
             /\ \E k \in 1..Len(sessions[s].interactions) :
                    IdOf(sessions[s].interactions[k]) = r.request}
    ELSE {s \in SessionIds : s = r.request[1] /\ sessions[s].exists}

\* C27: a request of a user who does not own the session leaves its
\* interactions as they were and is answered 403 or 404.
C27_OnlyTheOwnerWrites ==
    [][Replied =>
          \A s \in TargetsOf(Sent) :
              sessions[s].student_id # Sent.user =>
                  /\ sessions'[s].interactions = sessions[s].interactions
                  /\ Sent.status \in {403, 404}]_vars

\* C28: for every room, whatever the sequence and interleaving of join,
\* add-student and remove-student requests, allowed_students holds no
\* student twice and at most max_students entries.
NoStudentTwice(room) ==
    \A i, j \in 1..Len(room.allowed_students) :
        room.allowed_students[i] = room.allowed_students[j] => i = j
WithinMax(room) == Len(room.allowed_students) <= room.max_students
C28_RosterWithinRules ==
    \A r \in 1..Len(rooms) : NoStudentTwice(rooms[r]) /\ WithinMax(rooms[r])

\* C29: POST /auth/refresh answers with an access token only when the
\* stored record of the refresh token it was sent is active: present, not
\* revoked and not past expires_at.
RefreshAnswered ==
    /\ Len(resp') = Len(resp) + 1
    /\ resp'[Len(resp')].route = "POST /auth/refresh"
    /\ resp'[Len(resp')].status = 200
HasActiveRecord(token) ==
    \E k \in 1..Len(refreshTokens) :
        /\ refreshTokens[k].token = token
        /\ ~refreshTokens[k].revoked
        /\ now < refreshTokens[k].expires_at
C29_RefreshNeedsAnActiveRecord ==
    [][RefreshAnswered => HasActiveRecord(resp'[Len(resp')].request[1])]_vars

\* C30: under first-match dispatch GET /api/rooms/stats is answered by the
\* room-stats handler and POST /api/interactions/share-report by the
\* share-report handler.
AnsweredBy(request, handler) ==
    \A k \in 1..Len(resp) : resp[k].request = request => resp[k].route = handler
C30_LiteralRoutesAreReached ==
    /\ AnsweredBy(<<"/api/rooms", "GET", <<"stats">>>>, "GET /stats")
    /\ AnsweredBy(<<"/api/interactions", "POST", <<"share-report">>>>,
                  "POST /share-report")

====
